---- MODULE Spec2Model ----
(***************************************************************************)
(* Binding of a GraphQL schema to resolver types:                          *)
(* internal/exec/resolvable/resolvable.go (ApplyResolver, execBuilder)     *)
(* and scalar/id.go (ID.ImplementsGraphQLType).                            *)
(*                                                                         *)
(* Identifiers (field, method, type and directive names) are sequences of  *)
(* one-character strings, so that the case- and underscore-insensitive     *)
(* matching of the source is computed and not assumed.  A character        *)
(* outside ASCII is written by its code point ("U+017F").  Schema types and *)
(* resolver (reflect) types are entries of two tables, ST and RT, keyed by *)
(* an identity: the source keys its memo by pointer identity of the schema *)
(* type and by reflect.Type identity.                                      *)
(***************************************************************************)
EXTENDS Naturals, Integers, Sequences, FiniteSets, TLC

\* ------------------------------------------------------------------------
\* Strings
\* ------------------------------------------------------------------------

\* The alphabet of the names below: the ASCII letters, digits and underscore,
\* and of the letters outside ASCII
\*   U+00C9 (E acute), U+00E9 (e acute): a pair of cases outside ASCII
\*   U+212A (Kelvin sign): an upper-case letter whose lower case is the ASCII k
\*   U+017F (long s): a lower-case letter that folds to the ASCII s
\* UpperChars[i] has the lower case LowerChars[i] (unicode.ToLower)
UpperChars == <<"A","B","C","D","E","F","G","H","I","J","K","L","M",
                "N","O","P","Q","R","S","T","U","V","W","X","Y","Z", "U+00C9", "U+212A">>
LowerChars == <<"a","b","c","d","e","f","g","h","i","j","k","l","m",
                "n","o","p","q","r","s","t","u","v","w","x","y","z", "U+00E9", "k">>

\* strings.ToLower on one character: the long s is its own lower case
LowerChar(c) ==
  IF \E i \in 1..Len(UpperChars) : UpperChars[i] = c
  THEN LowerChars[CHOOSE i \in 1..Len(UpperChars) : UpperChars[i] = c]
  ELSE c

\* strings.ToLower
ToLower(str) == [i \in 1..Len(str) |-> LowerChar(str[i])]

\* stripUnderscore: strings.Replace(s, "_", "", -1)
stripUnderscore(str) == SelectSeq(str, LAMBDA c : c # "_")

\* the least member of the character's orbit under unicode.SimpleFold other
\* than its upper cases: k for k, K and the Kelvin sign; s for s, S and the long s
Fold(c) == IF c = "U+017F" THEN "s" ELSE LowerChar(c)

\* strings.EqualFold: character by character, equal under simple case folding
EqualFold(a, b) == Len(a) = Len(b) /\ \A i \in 1..Len(a) : Fold(a[i]) = Fold(b[i])

\* the comparison findMethod and findField make
NameMatches(name, member) == EqualFold(stripUnderscore(name), stripUnderscore(member))

\* ------------------------------------------------------------------------
\* Identifiers used by the schemas and resolvers below
\* ------------------------------------------------------------------------

Query        == <<"Q","u","e","r","y">>
Mutation     == <<"M","u","t","a","t","i","o","n">>
Subscription == <<"S","u","b","s","c","r","i","p","t","i","o","n">>
Roles        == <<Query, Mutation, Subscription>>

nInt     == <<"I","n","t">>
nFloat   == <<"F","l","o","a","t">>
nString  == <<"S","t","r","i","n","g">>
nBoolean == <<"B","o","o","l","e","a","n">>
nID      == <<"I","D">>
nColor   == <<"C","o","l","o","r">>
nPet     == <<"P","e","t">>
nCat     == <<"C","a","t">>
nDog     == <<"D","o","g">>
nCatOrDog == <<"C","a","t","O","r","D","o","g">>
nNode    == <<"N","o","d","e">>
nSub     == <<"S","u","b">>
nMut     == <<"M","u","t">>

dInclude     == <<"i","n","c","l","u","d","e">>
dSkip        == <<"s","k","i","p">>
dDeprecated  == <<"d","e","p","r","e","c","a","t","e","d">>
dSpecifiedBy == <<"s","p","e","c","i","f","i","e","d","B","y">>
dAuth        == <<"a","u","t","h">>
dLog         == <<"l","o","g">>
dGhost       == <<"g","h","o","s","t">>

NoName == <<>>
nV  == <<"v">>
nAB == <<"a","_","b">>
nX  == <<"x">>

\* ------------------------------------------------------------------------
\* Schema type graph (types.Schema): read-only input of the binder.
\* An entry's key is the identity of the types.Type value; every NonNull and
\* List wrapper is an entry of its own, one per occurrence in the schema.
\* ------------------------------------------------------------------------

NoType == ""

ScalarT(n)    == [kind |-> "Scalar", name |-> n, fields |-> <<>>, possible |-> <<>>, ofType |-> NoType]
EnumT(n)      == [kind |-> "Enum", name |-> n, fields |-> <<>>, possible |-> <<>>, ofType |-> NoType]
NonNullT(t)   == [kind |-> "NonNull", name |-> NoName, fields |-> <<>>, possible |-> <<>>, ofType |-> t]
ListT(t)      == [kind |-> "List", name |-> NoName, fields |-> <<>>, possible |-> <<>>, ofType |-> t]
ObjectT(n, fs)       == [kind |-> "Object", name |-> n, fields |-> fs, possible |-> <<>>, ofType |-> NoType]
InterfaceT(n, fs, p) == [kind |-> "Interface", name |-> n, fields |-> fs, possible |-> p, ofType |-> NoType]
UnionT(n, p)         == [kind |-> "Union", name |-> n, fields |-> <<>>, possible |-> p, ofType |-> NoType]

\* an input object: a type makeExec has no case for
InputObjectT(n) == [kind |-> "InputObject", name |-> n, fields |-> <<>>, possible |-> <<>>, ofType |-> NoType]

\* types.InputValueDefinition: name, and whether the default value (if any) packs
Arg(n, packs) == [name |-> n, defaultPacks |-> packs]

\* types.FieldDefinition: name, type, declared arguments, attached directives
FD(n, t, as, ds) == [name |-> n, type |-> t, args |-> as, directives |-> ds]

ST ==
     ("Int" :> ScalarT(nInt)) @@ ("Float" :> ScalarT(nFloat)) @@ ("String" :> ScalarT(nString))
  @@ ("Boolean" :> ScalarT(nBoolean)) @@ ("ID" :> ScalarT(nID)) @@ ("Color" :> EnumT(nColor))
  \* one object per scalar: type Q<S> { v: <S>! }
  @@ ("QInt" :> ObjectT(<<"Q">> \o nInt, <<FD(nV, "QInt.v", <<>>, <<>>)>>))
  @@ ("QInt.v" :> NonNullT("Int"))
  @@ ("QFloat" :> ObjectT(<<"Q">> \o nFloat, <<FD(nV, "QFloat.v", <<>>, <<>>)>>))
  @@ ("QFloat.v" :> NonNullT("Float"))
  @@ ("QString" :> ObjectT(<<"Q">> \o nString, <<FD(nV, "QString.v", <<>>, <<>>)>>))
  @@ ("QString.v" :> NonNullT("String"))
  @@ ("QBoolean" :> ObjectT(<<"Q">> \o nBoolean, <<FD(nV, "QBoolean.v", <<>>, <<>>)>>))
  @@ ("QBoolean.v" :> NonNullT("Boolean"))
  @@ ("QID" :> ObjectT(<<"Q">> \o nID, <<FD(nV, "QID.v", <<>>, <<>>)>>))
  @@ ("QID.v" :> NonNullT("ID"))
  \* type QNull { v: Int }      type QColor { v: Color! }    type QColorN { v: Color }
  @@ ("QNull" :> ObjectT(<<"Q","N","u","l","l">>, <<FD(nV, "Int", <<>>, <<>>)>>))
  @@ ("QColor" :> ObjectT(<<"Q">> \o nColor, <<FD(nV, "QColor.v", <<>>, <<>>)>>))
  @@ ("QColor.v" :> NonNullT("Color"))
  @@ ("QColorN" :> ObjectT(<<"Q">> \o nColor \o <<"N">>, <<FD(nV, "Color", <<>>, <<>>)>>))
  \* type QList { v: [Int!]! }  type QListN { v: [Int] }
  @@ ("QList" :> ObjectT(<<"Q","L","i","s","t">>, <<FD(nV, "QList.v", <<>>, <<>>)>>))
  @@ ("QList.v" :> NonNullT("QList.v/L")) @@ ("QList.v/L" :> ListT("QList.v/L/N"))
  @@ ("QList.v/L/N" :> NonNullT("Int"))
  @@ ("QListN" :> ObjectT(<<"Q","L","i","s","t","N">>, <<FD(nV, "QListN.v", <<>>, <<>>)>>))
  @@ ("QListN.v" :> ListT("Int"))
  \* type QArgs { v(x: Int): Int! }
  @@ ("QArgs" :> ObjectT(<<"Q","A","r","g","s">>, <<FD(nV, "QArgs.v", <<Arg(nX, TRUE)>>, <<>>)>>))
  @@ ("QArgs.v" :> NonNullT("Int"))
  \* type QArgsDef { v(x: Int = <a value that does not pack>): Int! }
  @@ ("QArgsDef" :> ObjectT(<<"Q","A","r","g","s","D","e","f">>, <<FD(nV, "QArgsDef.v", <<Arg(nX, FALSE)>>, <<>>)>>))
  @@ ("QArgsDef.v" :> NonNullT("Int"))
  \* type QNest { v: QInt! }    type QNestN { v: QInt }
  @@ ("QNest" :> ObjectT(<<"Q","N","e","s","t">>, <<FD(nV, "QNest.v", <<>>, <<>>)>>))
  @@ ("QNest.v" :> NonNullT("QInt"))
  @@ ("QNestN" :> ObjectT(<<"Q","N","e","s","t","N">>, <<FD(nV, "QInt", <<>>, <<>>)>>))
  \* interface Pet { v: Int! }, implemented by Cat and Dog; union CatOrDog = Cat | Dog
  @@ ("Pet" :> InterfaceT(nPet, <<FD(nV, "Pet.v", <<>>, <<>>)>>, <<"Cat", "Dog">>))
  @@ ("Pet.v" :> NonNullT("Int"))
  @@ ("Cat" :> ObjectT(nCat, <<FD(nV, "Cat.v", <<>>, <<>>)>>)) @@ ("Cat.v" :> NonNullT("Int"))
  @@ ("Dog" :> ObjectT(nDog, <<FD(nV, "Dog.v", <<>>, <<>>)>>)) @@ ("Dog.v" :> NonNullT("Int"))
  @@ ("CatOrDog" :> UnionT(nCatOrDog, <<"Cat", "Dog">>))
  @@ ("QPet" :> ObjectT(<<"Q">> \o nPet, <<FD(nV, "QPet.v", <<>>, <<>>)>>))
  @@ ("QPet.v" :> NonNullT("Pet"))
  @@ ("QUnion" :> ObjectT(<<"Q","U","n","i","o","n">>, <<FD(nV, "QUnion.v", <<>>, <<>>)>>))
  @@ ("QUnion.v" :> NonNullT("CatOrDog"))
  \* type QDir<d> { v: Int! @<d> }
  @@ ("QDirAuth" :> ObjectT(<<"Q","D","1">>, <<FD(nV, "QDirAuth.v", <<>>, <<dAuth>>)>>))
  @@ ("QDirAuth.v" :> NonNullT("Int"))
  @@ ("QDirInclude" :> ObjectT(<<"Q","D","2">>, <<FD(nV, "QDirInclude.v", <<>>, <<dInclude>>)>>))
  @@ ("QDirInclude.v" :> NonNullT("Int"))
  @@ ("QDirDeprecated" :> ObjectT(<<"Q","D","3">>, <<FD(nV, "QDirDeprecated.v", <<>>, <<dDeprecated>>)>>))
  @@ ("QDirDeprecated.v" :> NonNullT("Int"))
  @@ ("QDirGhost" :> ObjectT(<<"Q","D","4">>, <<FD(nV, "QDirGhost.v", <<>>, <<dGhost>>)>>))
  @@ ("QDirGhost.v" :> NonNullT("Int"))
  @@ ("QDirSkip" :> ObjectT(<<"Q","D","5">>, <<FD(nV, "QDirSkip.v", <<>>, <<dSkip>>)>>))
  @@ ("QDirSkip.v" :> NonNullT("Int"))
  @@ ("QDirSpecifiedBy" :> ObjectT(<<"Q","D","6">>, <<FD(nV, "QDirSpecifiedBy.v", <<>>, <<dSpecifiedBy>>)>>))
  @@ ("QDirSpecifiedBy.v" :> NonNullT("Int"))
  \* type QDirTwo { v: Int! @deprecated @auth, w: Int! @include }
  @@ ("QDirTwo" :> ObjectT(<<"Q","D","7">>, <<FD(nV, "QDirTwo.v", <<>>, <<dDeprecated, dAuth>>),
                                              FD(<<"w">>, "QDirTwo.w", <<>>, <<dInclude>>)>>))
  @@ ("QDirTwo.v" :> NonNullT("Int")) @@ ("QDirTwo.w" :> NonNullT("Int"))
  \* type QField { a_b: Int! }
  @@ ("QField" :> ObjectT(<<"Q","F","i","e","l","d">>, <<FD(nAB, "QField.a_b", <<>>, <<>>)>>))
  @@ ("QField.a_b" :> NonNullT("Int"))
  \* type QFold { ks: Int! }
  @@ ("QFold" :> ObjectT(<<"Q","F","o","l","d">>, <<FD(<<"k","s">>, "QFold.ks", <<>>, <<>>)>>))
  @@ ("QFold.ks" :> NonNullT("Int"))
  \* type Node { self: Node, kids: [Node!]!, v: Int! }
  @@ ("Node" :> ObjectT(nNode, <<FD(<<"s","e","l","f">>, "Node", <<>>, <<>>),
                                 FD(<<"k","i","d","s">>, "Node.kids", <<>>, <<>>),
                                 FD(nV, "Node.v", <<>>, <<>>)>>))
  @@ ("Node.kids" :> NonNullT("Node.kids/L")) @@ ("Node.kids/L" :> ListT("Node.kids/L/N"))
  @@ ("Node.kids/L/N" :> NonNullT("Node")) @@ ("Node.v" :> NonNullT("Int"))
  \* input In {}; type QInput { v: In! }
  @@ ("In" :> InputObjectT(<<"I","n">>))
  @@ ("QInput" :> ObjectT(<<"Q","I","n","p","u","t">>, <<FD(nV, "QInput.v", <<>>, <<>>)>>))
  @@ ("QInput.v" :> NonNullT("In"))
  \* type Mut { v: Int! }       type Sub { v: Int! }
  @@ ("Mut" :> ObjectT(nMut, <<FD(nV, "Mut.v", <<>>, <<>>)>>)) @@ ("Mut.v" :> NonNullT("Int"))
  @@ ("Sub" :> ObjectT(nSub, <<FD(nV, "Sub.v", <<>>, <<>>)>>)) @@ ("Sub.v" :> NonNullT("Int"))

\* types.DirectiveDefinition: declared locations and arguments
DD(locs, as) == [locations |-> locs, arguments |-> as]

\* Schema.Directives of the schemas bound below
DeclStd ==
     (dInclude :> DD(<<"FIELD", "FRAGMENT_SPREAD", "INLINE_FRAGMENT">>, <<>>))
  @@ (dSkip :> DD(<<"FIELD", "FRAGMENT_SPREAD", "INLINE_FRAGMENT">>, <<>>))
  @@ (dDeprecated :> DD(<<"FIELD_DEFINITION", "ENUM_VALUE">>, <<>>))
  @@ (dSpecifiedBy :> DD(<<"SCALAR">>, <<>>))
DeclAuth == DeclStd @@ (dAuth :> DD(<<"OBJECT", "FIELD_DEFINITION">>, <<>>)) @@ (dLog :> DD(<<"OBJECT">>, <<>>))
DeclBuiltinsOnFields ==
     (dInclude :> DD(<<"FIELD", "FIELD_DEFINITION">>, <<>>))
  @@ (dSkip :> DD(<<"FIELD_DEFINITION">>, <<>>))
  @@ (dDeprecated :> DD(<<"FIELD_DEFINITION">>, <<>>))
  @@ (dSpecifiedBy :> DD(<<"SCALAR", "FIELD_DEFINITION">>, <<>>))
DeclSets == {DeclStd, DeclAuth, DeclBuiltinsOnFields}

\* ------------------------------------------------------------------------
\* Resolver types (reflect.Type): read-only input of the binder.
\* kind: reflect.Kind.  elem: Elem() of a pointer, slice or channel.
\* methods: the method set in reflect's order (sorted by name); a method's
\* "in" leaves out the receiver, which NumIn/In add for a non-interface type.
\* fields: the struct's fields in declaration order.
\* unm/impl: whether a pointer to the type satisfies decode.Unmarshaler, and
\* the scalar names for which its ImplementsGraphQLType answers true.
\* ------------------------------------------------------------------------

NoRT == ""

\* reflect.Method; result is the dynamic type of the value a call returns
\* ("nil" for a nil pointer or nil interface), read only for the root methods
M(n, in, out) == [name |-> n, in |-> in, out |-> out, result |-> NoRT]
MR(n, in, out, res) == [name |-> n, in |-> in, out |-> out, result |-> res]
\* reflect.StructField
SF(n, t, anon) == [name |-> n, type |-> t, anon |-> anon]

RType(k, e, ms, fs) == [kind |-> k, elem |-> e, methods |-> ms, fields |-> fs, unm |-> FALSE, impl |-> {}]
Prim(k)   == RType(k, NoRT, <<>>, <<>>)
\* a type whose pointer implements decode.Unmarshaler, answering true for names
Custom(k, names, ms, fs) == [kind |-> k, elem |-> NoRT, methods |-> ms, fields |-> fs, unm |-> TRUE, impl |-> names]
\* struct type id with pointer-receiver methods ms, and the pointer type "*"id
PtrStruct(id, ms, fs) == (id :> RType("Struct", NoRT, <<>>, fs)) @@ (("*" \o id) :> RType("Ptr", id, ms, <<>>))

mV  == <<"V">>
CTX == "context.Context"
ERR == "error"

\* the types a field resolver V() returns in the "rv:" family below
XTypes == {"int32", "float64", "string", "bool", "int64", "Celsius", "ID", "MyInt", "HalfID",
           "*int32", "[]int32", "*[]*int32", "chan int32",
           "m_iface", "any", "*rv:int32", "rv:int32",
           "*pet", "*petNoDog", "*petArgs", "*petOne", "*petInt", "petIface", "petIfaceBare"}

\* type rv:X struct{}; func (*rv:X) V() X
RVTable ==
  [id \in {"*rv:" \o x : x \in XTypes} \cup {"rv:" \o x : x \in XTypes} |->
     LET x == CHOOSE y \in XTypes : id = "*rv:" \o y \/ id = "rv:" \o y
     IN  IF id = "rv:" \o x
         THEN RType("Struct", NoRT, <<>>, <<>>)
         ELSE RType("Ptr", "rv:" \o x, <<M(mV, <<>>, <<x>>)>>, <<>>)]

mToCat == <<"T","o","C","a","t">>
mToDog == <<"T","o","D","o","g">>
mKids  == <<"K","i","d","s">>
mSelf  == <<"S","e","l","f">>
CAT == "*rv:int32"
DOG == "*rv:int32"

\* The methods of a type stand in the order of reflect.Type.Method(i): sorted
\* by name, byte by byte (an ASCII letter before any letter outside ASCII).
RT ==
  LET implementsGraphQLType ==
        M(<<"I","m","p","l","e","m","e","n","t","s","G","r","a","p","h","Q","L","T","y","p","e">>, <<"string">>, <<"bool">>)
      marshalJSON == M(<<"M","a","r","s","h","a","l","J","S","O","N">>, <<>>, <<"[]byte", ERR>>)
      unmarshalGraphQL ==
        M(<<"U","n","m","a","r","s","h","a","l","G","r","a","p","h","Q","L">>, <<"any">>, <<ERR>>)
  IN
     ("int32" :> Prim("Int32")) @@ ("float64" :> Prim("Float64")) @@ ("string" :> Prim("String"))
  @@ ("bool" :> Prim("Bool")) @@ ("int64" :> Prim("Int64"))
  \* type Celsius int32
  @@ ("Celsius" :> Prim("Int32"))
  \* scalar.ID[string]: struct{ Value string } with the value methods
  \* ImplementsGraphQLType(name) = (name == "ID") and MarshalJSON, and the
  \* pointer method UnmarshalGraphQL
  @@ ("ID" :> Custom("Struct", {nID}, <<implementsGraphQLType, marshalJSON>>,
                     <<SF(<<"V","a","l","u","e">>, "string", FALSE)>>))
  @@ ("*ID" :> RType("Ptr", "ID", <<implementsGraphQLType, marshalJSON, unmarshalGraphQL>>, <<>>))
  \* type MyInt int64 with the pointer methods ImplementsGraphQLType(name) =
  \* (name == "Int") and UnmarshalGraphQL
  @@ ("MyInt" :> Custom("Int64", {nInt}, <<>>, <<>>))
  @@ ("*MyInt" :> RType("Ptr", "MyInt", <<implementsGraphQLType, unmarshalGraphQL>>, <<>>))
  \* type HalfID struct{} with the pointer method ImplementsGraphQLType(name) =
  \* (name == "ID") only: no decode.Unmarshaler
  @@ ("HalfID" :> [kind |-> "Struct", elem |-> NoRT, methods |-> <<>>, fields |-> <<>>, unm |-> FALSE, impl |-> {nID}])
  @@ ("*HalfID" :> RType("Ptr", "HalfID", <<implementsGraphQLType>>, <<>>))
  @@ ("*int32" :> RType("Ptr", "int32", <<>>, <<>>))
  @@ ("[]int32" :> RType("Slice", "int32", <<>>, <<>>))
  @@ ("[]*int32" :> RType("Slice", "*int32", <<>>, <<>>))
  @@ ("*[]*int32" :> RType("Ptr", "[]*int32", <<>>, <<>>))
  @@ ("chan int32" :> RType("Chan", "int32", <<>>, <<>>))
  @@ (CTX :> RType("Interface", NoRT, <<>>, <<>>))
  @@ (ERR :> RType("Interface", NoRT, <<>>, <<>>))
  @@ ("any" :> RType("Interface", NoRT, <<>>, <<>>))
  \* argument structs: struct{ X int32 } and struct{}
  @@ ("argsX" :> RType("Struct", NoRT, <<>>, <<SF(<<"X">>, "int32", FALSE)>>))
  @@ ("argsBad" :> RType("Struct", NoRT, <<>>, <<>>))
  \* directive visitor implementation
  @@ PtrStruct("dirImpl", <<>>, <<>>)
  @@ RVTable
  \* resolvers for a field v with the signatures makeFieldExec tells apart
  @@ PtrStruct("m_ctx", <<M(mV, <<CTX>>, <<"int32">>)>>, <<>>)
  @@ PtrStruct("m_ctx_args_err", <<M(mV, <<CTX, "argsX">>, <<"int32", ERR>>)>>, <<>>)
  @@ PtrStruct("m_args", <<M(mV, <<"argsX">>, <<"int32">>)>>, <<>>)
  @@ PtrStruct("m_args_bad", <<M(mV, <<"argsBad">>, <<"int32">>)>>, <<>>)
  @@ PtrStruct("m_extra", <<M(mV, <<CTX, "argsX", "int32">>, <<"int32">>)>>, <<>>)
  @@ PtrStruct("m_args_ctx", <<M(mV, <<"argsX", CTX>>, <<"int32">>)>>, <<>>)
  @@ PtrStruct("m_err", <<M(mV, <<>>, <<"int32", ERR>>)>>, <<>>)
  @@ PtrStruct("m_second", <<M(mV, <<>>, <<"int32", "int32">>)>>, <<>>)
  @@ PtrStruct("m_none", <<M(mV, <<>>, <<>>)>>, <<>>)
  @@ PtrStruct("m_three", <<M(mV, <<>>, <<"int32", ERR, ERR>>)>>, <<>>)
  \* interface{ V(context.Context) (int32, error) }
  @@ ("m_iface" :> RType("Interface", NoRT, <<M(mV, <<CTX>>, <<"int32", ERR>>)>>, <<>>))
  \* resolvers of interface Pet and union CatOrDog
  @@ PtrStruct("pet", <<M(mToCat, <<>>, <<CAT, "bool">>), M(mToDog, <<>>, <<DOG, "bool">>), M(mV, <<>>, <<"int32">>)>>, <<>>)
  @@ PtrStruct("petNoDog", <<M(mToCat, <<>>, <<CAT, "bool">>), M(mV, <<>>, <<"int32">>)>>, <<>>)
  @@ PtrStruct("petArgs", <<M(mToCat, <<>>, <<CAT, "bool">>), M(mToDog, <<"int32">>, <<DOG, "bool">>), M(mV, <<>>, <<"int32">>)>>, <<>>)
  @@ PtrStruct("petOne", <<M(mToCat, <<>>, <<CAT, "bool">>), M(mToDog, <<>>, <<DOG>>), M(mV, <<>>, <<"int32">>)>>, <<>>)
  @@ PtrStruct("petInt", <<M(mToCat, <<>>, <<CAT, "bool">>), M(mToDog, <<>>, <<DOG, "int32">>), M(mV, <<>>, <<"int32">>)>>, <<>>)
  @@ ("petIface" :> RType("Interface", NoRT,
         <<M(mToCat, <<>>, <<CAT, "bool">>), M(mToDog, <<>>, <<DOG, "bool">>), M(mV, <<>>, <<"int32">>)>>, <<>>))
  @@ ("petIfaceBare" :> RType("Interface", NoRT, <<M(mV, <<>>, <<"int32">>)>>, <<>>))
  \* type node struct{}; Kids() []*node; Self() *node; V() int32
  @@ PtrStruct("node", <<M(mKids, <<>>, <<"[]*node">>), M(mSelf, <<>>, <<"*node">>), M(mV, <<>>, <<"int32">>)>>, <<>>)
  @@ ("[]*node" :> RType("Slice", "*node", <<>>, <<>>))
  \* structs resolving field a_b through data members
  @@ ("E1" :> RType("Struct", NoRT, <<>>, <<SF(<<"A","b">>, "int32", FALSE)>>))
  @@ ("E2" :> RType("Struct", NoRT, <<>>, <<SF(<<"A","_","b">>, "int32", FALSE)>>))
  @@ ("*E1" :> RType("Ptr", "E1", <<>>, <<>>))
  @@ ("D" :> RType("Struct", NoRT, <<>>, <<SF(<<"Y">>, "bool", FALSE), SF(<<"E","1">>, "E1", TRUE)>>))
  @@ ("AB" :> RType("Struct", NoRT, <<>>, <<SF(<<"Z">>, "int32", FALSE)>>))
  @@ PtrStruct("f_direct", <<>>, <<SF(<<"X">>, "string", FALSE), SF(<<"A","_","B">>, "int32", FALSE)>>)
  @@ PtrStruct("f_emb1", <<>>, <<SF(<<"X">>, "string", FALSE), SF(<<"E","1">>, "E1", TRUE)>>)
  @@ PtrStruct("f_emb2", <<>>, <<SF(<<"E","1">>, "E1", TRUE), SF(<<"E","2">>, "E2", TRUE)>>)
  @@ PtrStruct("f_deep", <<>>, <<SF(<<"X">>, "string", FALSE), SF(<<"D">>, "D", TRUE)>>)
  @@ PtrStruct("f_meth", <<M(<<"A","_","b">>, <<>>, <<"int32">>)>>, <<SF(<<"E","1">>, "E1", TRUE), SF(<<"E","2">>, "E2", TRUE)>>)
  @@ PtrStruct("f_embptr", <<>>, <<SF(<<"E","1">>, "*E1", TRUE)>>)
  @@ PtrStruct("f_diremb", <<>>, <<SF(<<"A","b">>, "int32", FALSE), SF(<<"E","1">>, "E1", TRUE)>>)
  @@ PtrStruct("f_embname", <<>>, <<SF(<<"A","B">>, "AB", TRUE)>>)
  @@ PtrStruct("f_str", <<>>, <<SF(<<"A","b">>, "string", FALSE)>>)
  \* members whose names differ from the field ks by letters outside ASCII:
  \* the Kelvin sign for K, the long s for s, and E acute as another letter
  @@ ("E3" :> RType("Struct", NoRT, <<>>, <<SF(<<"K","s">>, "int32", FALSE)>>))
  @@ ("E4" :> RType("Struct", NoRT, <<>>, <<SF(<<"K","U+017F">>, "int32", FALSE)>>))
  @@ PtrStruct("f_kelvin", <<>>, <<SF(<<"U+00C9","s">>, "int32", FALSE), SF(<<"U+212A","_","S">>, "int32", FALSE)>>)
  @@ PtrStruct("f_kelvin2", <<>>, <<SF(<<"U+212A","s">>, "int32", FALSE), SF(<<"E","3">>, "E3", TRUE)>>)
  @@ PtrStruct("f_longs", <<>>, <<SF(<<"E","4">>, "E4", TRUE)>>)
  @@ PtrStruct("f_longs2", <<>>, <<SF(<<"E","4">>, "E4", TRUE), SF(<<"E","3">>, "E3", TRUE)>>)
  @@ PtrStruct("m_longs", <<M(<<"K","U+017F">>, <<>>, <<"int32">>), M(<<"U+00C9","s">>, <<>>, <<"int32">>)>>, <<>>)
  \* type rv2 struct{}; func (*rv2) V() int32; func (*rv2) W() int32
  @@ PtrStruct("rv2", <<M(mV, <<>>, <<"int32">>), M(<<"W">>, <<>>, <<"int32">>)>>, <<>>)
  \* root resolvers with role methods
  @@ PtrStruct("r_mutOK", <<MR(Mutation, <<>>, <<"*rv:int32">>, "*rv:int32"), M(mV, <<>>, <<"int32">>)>>, <<>>)
  @@ PtrStruct("r_mutNil", <<MR(Mutation, <<>>, <<"*rv:int32">>, "nil"), M(mV, <<>>, <<"int32">>)>>, <<>>)
  @@ PtrStruct("r_mutArg", <<MR(Mutation, <<"int32">>, <<"*rv:int32">>, "*rv:int32"), M(mV, <<>>, <<"int32">>)>>, <<>>)
  @@ PtrStruct("r_mutTwo", <<MR(Mutation, <<>>, <<"*rv:int32", ERR>>, "*rv:int32"), M(mV, <<>>, <<"int32">>)>>, <<>>)
  @@ PtrStruct("r_mutVal", <<MR(Mutation, <<>>, <<"rv:int32">>, "rv:int32"), M(mV, <<>>, <<"int32">>)>>, <<>>)
  @@ PtrStruct("r_mutIface", <<MR(Mutation, <<>>, <<"any">>, "*rv:int32"), M(mV, <<>>, <<"int32">>)>>, <<>>)
  @@ PtrStruct("r_mutIfaceNil", <<MR(Mutation, <<>>, <<"any">>, "nil"), M(mV, <<>>, <<"int32">>)>>, <<>>)
  @@ PtrStruct("r_mutBad", <<MR(Mutation, <<>>, <<"*rv:string">>, "*rv:string"), M(mV, <<>>, <<"int32">>)>>, <<>>)
  @@ PtrStruct("r_mutCase", <<MR(<<"M","U","T","A","T","I","O","N">>, <<"int32">>, <<>>, "nil"), M(mV, <<>>, <<"int32">>)>>, <<>>)
  @@ PtrStruct("r_qry", <<MR(Query, <<>>, <<"*rv:int32">>, "*rv:int32")>>, <<>>)
  @@ PtrStruct("r_qryNil", <<MR(Query, <<>>, <<"*rv:int32">>, "nil"), M(mV, <<>>, <<"int32">>)>>, <<>>)
  @@ PtrStruct("r_sub", <<MR(Subscription, <<>>, <<"*rv:chan int32">>, "*rv:chan int32"), M(mV, <<>>, <<"int32">>)>>, <<>>)
  @@ PtrStruct("r_subNil", <<MR(Subscription, <<>>, <<"*rv:chan int32">>, "nil"), M(mV, <<>>, <<"int32">>)>>, <<>>)
  @@ PtrStruct("r_all", <<MR(Mutation, <<>>, <<"*rv:int32">>, "*rv:int32"), MR(Query, <<>>, <<"any">>, "*node"),
                          MR(Subscription, <<>>, <<"*rv:chan int32">>, "*rv:chan int32")>>, <<>>)

\* reflect.Type.Kind()
Kind(rt) == RT[rt].kind
\* reflect.Type.Elem()
Elem(rt) == RT[rt].elem
\* reflect.Type.Method(i), i counted from 0
Method(rt, i) == RT[rt].methods[i + 1]
\* Method(i).Type's parameter list In(0..NumIn-1): for a non-interface type
\* the receiver comes first
MethodIn(rt, i) ==
  IF Kind(rt) # "Interface" THEN <<rt>> \o Method(rt, i).in ELSE Method(rt, i).in
\* Method(i).Type's result list Out(0..NumOut-1)
MethodOut(rt, i) == Method(rt, i).out
\* reflect.Type.NumField() and Field(i), i counted from 0
NumField(rt) == Len(RT[rt].fields)
Field(rt, i) == RT[rt].fields[i + 1]
\* reflect.PtrTo(t).NumMethod/Method: the method set of the pointer type; a
\* pointer to a pointer, to an interface or to a type without methods has none
PtrToMethods(rt) ==
  IF \E p \in DOMAIN RT : RT[p].kind = "Ptr" /\ RT[p].elem = rt
  THEN RT[CHOOSE p \in DOMAIN RT : RT[p].kind = "Ptr" /\ RT[p].elem = rt].methods
  ELSE <<>>

\* ------------------------------------------------------------------------
\* Helpers of the binder
\* ------------------------------------------------------------------------

\* a nil pointer, interface or map entry
Nil == 0

NoErr == [msg |-> "", rtype |-> NoRT, tname |-> NoName, fname |-> NoName, usedBy |-> <<>>]
\* fmt.Errorf: the message's constant text and the values it names
Errorf(msg, rtype, tname, fname) ==
  [msg |-> msg, rtype |-> rtype, tname |-> tname, fname |-> fname, usedBy |-> <<>>]

\* unwrapNonNull: the wrapped type and whether there was a wrapper
unwrapNonNull(t) ==
  IF ST[t].kind = "NonNull" THEN [type |-> ST[t].ofType, nonNull |-> TRUE]
  ELSE [type |-> t, nonNull |-> FALSE]

\* unwrapPtr
unwrapPtr(t) == IF Kind(t) = "Ptr" THEN Elem(t) ELSE t

\* the first index of methods whose name matches, -1 when none does
RECURSIVE FindMethodFrom(_, _, _)
FindMethodFrom(methods, name, i) ==
  IF i >= Len(methods) THEN -1
  ELSE IF NameMatches(name, methods[i + 1].name) THEN i
  ELSE FindMethodFrom(methods, name, i + 1)

\* findMethod
findMethod(t, name) == FindMethodFrom(RT[t].methods, name, 0)

\* reflect.Value.MethodByName: the method of exactly this name, -1 when none
RECURSIVE MethodByNameFrom(_, _, _)
MethodByNameFrom(methods, name, i) ==
  IF i >= Len(methods) THEN -1
  ELSE IF methods[i + 1].name = name THEN i
  ELSE MethodByNameFrom(methods, name, i + 1)
MethodByName(t, name) == MethodByNameFrom(RT[t].methods, name, 0)

\* findField's loop at field i: the embedded struct is searched first, then
\* the field's own name is compared
RECURSIVE FindFieldFrom(_, _, _, _)
FindFieldAt(t, name, index, i, field, newIndex) ==
  IF Kind(field.type) = "Struct" /\ field.anon /\ Len(newIndex) > 1 THEN index \o newIndex
  ELSE IF NameMatches(name, field.name) THEN Append(index, i)
  ELSE FindFieldFrom(t, name, index, i + 1)

\* findField's loop from field i on
FindFieldFrom(t, name, index, i) ==
  IF i >= NumField(t) THEN index
  ELSE FindFieldAt(t, name, index, i, Field(t, i),
                   IF Kind(Field(t, i).type) = "Struct" /\ Field(t, i).anon
                   THEN FindFieldFrom(Field(t, i).type, name, <<i>>, 0) ELSE <<>>)

\* findField
findField(t, name, index) == FindFieldFrom(t, name, index, 0)

\* a map[string]int: absent keys read as 0
CountOf(count, k) == IF k \in DOMAIN count THEN count[k] ELSE 0
Put(m, k, v) == [x \in DOMAIN m \cup {k} |-> IF x = k THEN v ELSE m[x]]
EmptyMap == <<>>

\* fieldCount's loop at field i
RECURSIVE FieldCountFrom(_, _, _)
FieldCountAt(t, count, i, field, fieldName) ==
  IF Kind(field.type) = "Struct" /\ field.anon
  THEN FieldCountFrom(t, FieldCountFrom(field.type, count, 0), i + 1)
  ELSE FieldCountFrom(t, Put(count, fieldName, CountOf(count, fieldName) + 1), i + 1)

\* fieldCount's loop from field i on
FieldCountFrom(t, count, i) ==
  IF i >= NumField(t) THEN count
  ELSE FieldCountAt(t, count, i, Field(t, i), ToLower(stripUnderscore(Field(t, i).name)))

\* fieldCount: nil (read as the empty map) for a type that is no struct
fieldCount(t, count) == IF Kind(t) # "Struct" THEN EmptyMap ELSE FieldCountFrom(t, count, 0)

\* reflect.Type.FieldByIndex
RECURSIVE FieldByIndex(_, _)
FieldByIndex(t, index) ==
  IF Len(index) = 1 THEN Field(t, index[1])
  ELSE FieldByIndex(unwrapPtr(Field(t, index[1]).type), Tail(index))

\* a faulty type switch, which goes by the kind of the type and so takes a named
\* type for the primitive under it: with it property C4 fails
implementsKind(name, resolverType) ==
  CASE Kind(resolverType) = "Int32"   -> name = nInt
    [] Kind(resolverType) = "Float64" -> name = nFloat
    [] Kind(resolverType) = "String"  -> name = nString
    [] Kind(resolverType) = "Bool"    -> name = nBoolean
    [] RT[resolverType].unm           -> name \in RT[resolverType].impl
    [] OTHER                          -> FALSE

\* makeScalarExec's type switch on reflect.New(resolverType).Interface():
\* whether resolverType implements the scalar named name
implementsType(name, resolverType) ==
  CASE resolverType = "int32"   -> name = nInt
    [] resolverType = "float64" -> name = nFloat
    [] resolverType = "string"  -> name = nString
    [] resolverType = "bool"    -> name = nBoolean
    [] RT[resolverType].unm     -> name \in RT[resolverType].impl
    [] OTHER                    -> FALSE

Plan(tag, err, tdef, rtype, nonNull) ==
  [tag |-> tag, err |-> err, tdef |-> tdef, rtype |-> rtype, nonNull |-> nonNull]

\* makeScalarExec: a Scalar node or an error
makeScalarExec(t, resolverType) ==
  IF ~implementsType(ST[t].name, resolverType)
  THEN Plan("err", Errorf("can not use %s as %s", resolverType, ST[t].name, NoName), t, resolverType, FALSE)
  ELSE Plan("leaf", NoErr, t, resolverType, FALSE)

\* makeObjectExec's check on entry
NotPointerOrInterface(nonNull, resolverType) ==
  ~nonNull /\ Kind(resolverType) # "Ptr" /\ Kind(resolverType) # "Interface"

\* a faulty check, which lets a slice pass for a pointer: with it property C10 fails
NotAPointerNorSlice(nonNull, resolverType) ==
  ~nonNull /\ Kind(resolverType) # "Ptr" /\ Kind(resolverType) # "Slice"

\* makeExec's check for scalars, enums and lists
NotAPointer(nonNull, resolverType) == ~nonNull /\ Kind(resolverType) # "Ptr"

\* makeExec's second switch, on the schema type's kind k, with the resolver
\* type r left after the pointer check
makeExecLeaf(u, k, r) ==
  CASE k = "Scalar" -> makeScalarExec(u.type, r)
    [] k = "Enum"   -> Plan("leaf", NoErr, u.type, r, u.nonNull)
    [] k = "List"   ->
         IF Kind(r) # "Slice"
         THEN Plan("err", Errorf("%s is not a slice", r, NoName, NoName), u.type, r, u.nonNull)
         ELSE Plan("list", NoErr, ST[u.type].ofType, Elem(r), u.nonNull)
    [] OTHER        -> Plan("panic", NoErr, u.type, r, u.nonNull)

\* makeExec after unwrapNonNull gave u, for a schema type of kind k
makeExecUnwrapped(u, k, resolverType) ==
  IF k \in {"Object", "Interface", "Union"}
  THEN IF NotPointerOrInterface(u.nonNull, resolverType)
       THEN Plan("err", Errorf("%s is not a pointer or interface", resolverType, NoName, NoName),
                 u.type, resolverType, u.nonNull)
       ELSE Plan("object", NoErr, u.type, resolverType, u.nonNull)
  ELSE IF NotAPointer(u.nonNull, resolverType)
  THEN Plan("err", Errorf("%s is not a pointer", resolverType, NoName, NoName), u.type, resolverType, u.nonNull)
  ELSE makeExecLeaf(u, k, IF u.nonNull THEN resolverType ELSE Elem(resolverType))

\* makeExec up to the first nested assignExec: an error, a panic, a finished
\* leaf, or the object or list whose members are bound next
makeExec(t, resolverType) ==
  makeExecUnwrapped(unwrapNonNull(t), ST[unwrapNonNull(t).type].kind, resolverType)

\* a StructPacker for the struct st
StructPacker(args, target, st) ==
  IF Kind(st) = "Struct" /\ \A a \in 1..Len(args) : \E f \in 1..NumField(st) : NameMatches(args[a].name, Field(st, f - 1).name)
  THEN [ok |-> TRUE, packer |-> <<[target |-> target, defaultsPack |-> \A a \in 1..Len(args) : args[a].defaultPacks]>>]
  ELSE [ok |-> FALSE, packer |-> <<>>]

\* packer.Builder.MakeStructPacker: a packer for the declared arguments and the
\* target type, or an error when the target is no struct with a member per argument
MakeStructPacker(args, target) == StructPacker(args, target, unwrapPtr(target))

\* no packer: a nil *packer.StructPacker
NoPacker == <<>>

\* ------------------------------------------------------------------------
\* Directive visitors (directives.Directive): name is ImplementsDirective(),
\* interceptor whether the value is a directives.ResolverInterceptor
\* ------------------------------------------------------------------------

Visitors ==
     ("auth"  :> [name |-> dAuth, interceptor |-> TRUE, rtype |-> "*dirImpl"])
  @@ ("auth2" :> [name |-> dAuth, interceptor |-> TRUE, rtype |-> "*dirImpl"])
  @@ ("log"   :> [name |-> dLog, interceptor |-> FALSE, rtype |-> "*dirImpl"])
  @@ ("include" :> [name |-> dInclude, interceptor |-> TRUE, rtype |-> "*dirImpl"])
  @@ ("deprecated" :> [name |-> dDeprecated, interceptor |-> TRUE, rtype |-> "*dirImpl"])
  @@ ("ghost" :> [name |-> dGhost, interceptor |-> TRUE, rtype |-> "*dirImpl"])

\* the built-in directives applyDirectives lets pass without a visitor
SpecialDirectives == {dInclude, dSkip, dDeprecated, dSpecifiedBy}

\* applyDirectives' first loop at visitor v, the i-th
RECURSIVE RegisterVisitors(_, _, _)
RegisterVisitor(visitors, byName, i, v) ==
  IF v.name \in DOMAIN byName
  THEN [err |-> Errorf("multiple implementations registered for directive %q", NoRT, NoName, v.name),
        byName |-> EmptyMap]
  ELSE IF ~v.interceptor
  THEN [err |-> Errorf("directive %q does not implement a valid directive visitor function", NoRT, NoName, v.name),
        byName |-> EmptyMap]
  ELSE RegisterVisitors(visitors, Put(byName, v.name, visitors[i]), i + 1)

\* applyDirectives' first loop from visitor i on: the by-name map or an error
RegisterVisitors(visitors, byName, i) ==
  IF i > Len(visitors) THEN [err |-> NoErr, byName |-> byName]
  ELSE RegisterVisitor(visitors, byName, i, Visitors[visitors[i]])

\* has FIELD_DEFINITION among its locations
AcceptedType(def) == \E l \in 1..Len(def.locations) : def.locations[l] = "FIELD_DEFINITION"

\* a faulty second loop, without the special case of the built-in directives:
\* with it property C5 fails
UnvisitedAny(decl, byName) ==
  {name \in DOMAIN decl : AcceptedType(decl[name]) /\ name \notin DOMAIN byName}

\* the declared directives on which applyDirectives' second loop fails; the loop
\* ranges over a map, so it reports any one of them
UnvisitedDirectives(decl, byName) ==
  {name \in DOMAIN decl : AcceptedType(decl[name]) /\ name \notin DOMAIN byName /\ name \notin SpecialDirectives}

\* ------------------------------------------------------------------------
\* State
\* ------------------------------------------------------------------------

VARIABLES
  s,                  \* the schema: RootOperationTypes and Directives
  resolver,           \* the dynamic type of the resolver passed in, "nil" for none
  dirVisitors,        \* the directive visitors passed in
  useFieldResolvers,  \* the flag passed in
  pc,                 \* where ApplyResolver stands
  op,                 \* the root operation its loops are at, 1..3
  directives,         \* execBuilder.directives: name -> visitor
  resolvers,          \* ApplyResolver's resolvers map: the dynamic type per role
  resMap,             \* execBuilder.resMap: typePair -> resMapEntry
  heap,               \* the nodes allocated so far; a node's address is its index
  stack,              \* the makeExec calls in progress, innermost last
  roots,              \* ApplyResolver's locals query, mutation, subscription
  calls,              \* history: the typePairs makeExec was called with, in order
  result              \* what ApplyResolver returned

vars == <<s, resolver, dirVisitors, useFieldResolvers, pc, op, directives, resolvers,
          resMap, heap, stack, roots, calls, result>>

\* the longest list of directive visitors passed in
MaxVisitors == 2

\* a *Resolvable: one of ApplyResolver's three locals or the child slot of a node
RootTarget(o) == <<"root", o>>
HeapTarget(n) == <<"heap", n>>

NoWait == [kind |-> "none", name |-> NoName, obj |-> Nil, member |-> NoName]

\* the activation of makeObjectExec (kind "obj") or of makeExec's list case
\* (kind "list") for the typePair key, whose result assignExec stores for target.
\* i, j: the fields and possible types bound so far; wait: the nested
\* assignExec call the activation is in
Frame(kind, key, target, tdef, rtype, node) ==
  [kind |-> kind, key |-> key, target |-> target, tdef |-> tdef, rtype |-> rtype,
   i |-> 0, j |-> 0, Fields |-> EmptyMap, TypeAssertions |-> EmptyMap, node |-> node, wait |-> NoWait]

\* the builder as one value, with the outcome of the call made on it:
\* "done", "pushed" (a nested makeExec is in progress), "error" or "panic"
Builder == [resMap |-> resMap, heap |-> heap, stack |-> stack, calls |-> calls, err |-> NoErr, out |-> "done"]

Top(b) == b.stack[Len(b.stack)]
SetTop(b, f) == [b EXCEPT !.stack[Len(b.stack)] = f]

\* the return of a nested assignExec into the activation that made it
Continue(f) ==
  CASE f.wait.kind = "field"  -> [f EXCEPT !.Fields = Put(@, f.wait.name, f.wait.obj), !.i = @ + 1, !.wait = NoWait]
    [] f.wait.kind = "assert" -> [f EXCEPT !.TypeAssertions = Put(@, f.wait.name, f.wait.obj), !.j = @ + 1, !.wait = NoWait]
    [] f.wait.kind = "elem"   -> [f EXCEPT !.i = 1, !.wait = NoWait]
    [] OTHER                  -> f

ContinueTop(b) == IF b.stack = <<>> THEN b ELSE SetTop(b, Continue(Top(b)))

\* a faulty assignExec, which forgets the targets recorded before: with it
\* property C1 fails
ReplaceTargets(entry, target) == [entry EXCEPT !.targets = <<target>>]

\* assignExec on a cache hit: only the target is recorded
AppendTarget(entry, target) == [entry EXCEPT !.targets = Append(@, target)]

\* whether assignExec finds the pair in resMap
CacheHit(rm, k) == k \in DOMAIN rm

\* assignExec on a miss, after the entry was created: what makeExec (plan)
\* leaves in the builder b1; n is the address of the node it allocates
AssignMiss(b1, k, target, plan, n) ==
  CASE plan.tag = "err"    -> [b1 EXCEPT !.err = plan.err, !.out = "error"]
    [] plan.tag = "panic"  -> [b1 EXCEPT !.out = "panic"]
    [] plan.tag = "leaf"   ->
         [b1 EXCEPT !.heap = Append(@, [kind |-> "Scalar"]),
                    !.resMap[k] = [exec |-> n, targets |-> <<target>>],
                    !.out = "done"]
    [] plan.tag = "object" ->
         [b1 EXCEPT !.stack = Append(@, Frame("obj", k, target, plan.tdef, plan.rtype, Nil)),
                    !.out = "pushed"]
    [] plan.tag = "list"   ->
         [b1 EXCEPT !.heap = Append(@, [kind |-> "List", Elem |-> Nil]),
                    !.stack = Append(@, Frame("list", k, target, plan.tdef, plan.rtype, n)),
                    !.out = "pushed"]

\* assignExec, up to the point where makeExec makes a nested assignExec call
AssignExec(b, target, t, resolverType) ==
  IF CacheHit(b.resMap, <<t, resolverType>>)
  THEN [b EXCEPT !.resMap[<<t, resolverType>>] = AppendTarget(@, target), !.out = "done"]
  ELSE AssignMiss([b EXCEPT !.resMap = Put(@, <<t, resolverType>>, [exec |-> Nil, targets |-> <<>>]),
                            !.calls = Append(@, <<t, resolverType>>)],
                  <<t, resolverType>>, target, makeExec(t, resolverType), Len(b.heap) + 1)

\* the end of assignExec after makeExec returned node for the innermost
\* activation f: the entry gets the node, then the target is recorded
ReturnTo(b, f, node) ==
  ContinueTop([b EXCEPT !.resMap[f.key] = [exec |-> node, targets |-> Append(@.targets, f.target)],
                        !.stack = SubSeq(@, 1, Len(@) - 1),
                        !.out = "done"])
Return(b, node) == ReturnTo(b, Top(b), node)

\* a failed makeFieldExec call of activation f adds "used by (resolver type).member"
UsedBy(err, f) ==
  IF f.wait.kind = "field" THEN [err EXCEPT !.usedBy = Append(@, <<f.rtype, f.wait.member>>)] ELSE err

\* the error as it reaches ApplyResolver: every makeObjectExec on the way whose
\* makeFieldExec call failed adds "used by (resolver type).member"
RECURSIVE Unwind(_, _)
Unwind(err, st) ==
  IF st = <<>> THEN err ELSE Unwind(UsedBy(err, st[Len(st)]), SubSeq(st, 1, Len(st) - 1))

\* ------------------------------------------------------------------------
\* Field binding
\* ------------------------------------------------------------------------

maxNumOfReturns == 2

\* whether the field's normalised name counts more than one data member
Ambiguous(fieldsCount, name) == CountOf(fieldsCount, ToLower(stripUnderscore(name))) > 1

\* makeObjectExec's choice between the method found (methodIndex) and a data
\* member of rt, the resolver type without its pointer: an error when the name
\* is ambiguous or nothing resolves it.  fieldIndex is findField's answer
Resolved(resolverType, typeName, name, methodIndex, ambiguous, fieldIndex, hint) ==
  CASE ambiguous ->
         [tag |-> "err", methodIndex |-> methodIndex, fieldIndex |-> <<>>,
          err |-> Errorf("%s does not resolve %q: ambiguous field %q", resolverType, typeName, name)]
    [] methodIndex = -1 /\ Len(fieldIndex) = 0 ->
         [tag |-> "err", methodIndex |-> methodIndex, fieldIndex |-> <<>>,
          err |-> Errorf(IF hint THEN "%s does not resolve %q: missing method for field %q (hint: the method exists on the pointer type)"
                                 ELSE "%s does not resolve %q: missing method for field %q",
                         resolverType, typeName, name)]
    [] OTHER ->
         [tag |-> "ok", methodIndex |-> methodIndex, fieldIndex |-> fieldIndex, err |-> NoErr]

\* the data member searched when no method matches and field resolvers are in
\* use; findField on a type that is no struct panics in reflect.Type.NumField
ResolveMember(resolverType, rt, typeName, name, methodIndex, ambiguous) ==
  IF useFieldResolvers /\ methodIndex = -1 /\ ~ambiguous /\ Kind(rt) # "Struct"
  THEN [tag |-> "panic", methodIndex |-> methodIndex, fieldIndex |-> <<>>, err |-> NoErr]
  ELSE Resolved(resolverType, typeName, name, methodIndex, ambiguous,
                IF useFieldResolvers /\ methodIndex = -1 /\ ~ambiguous THEN findField(rt, name, <<>>) ELSE <<>>,
                FindMethodFrom(PtrToMethods(resolverType), name, 0) # -1)

\* whether makeObjectExec looks for a data member
SearchesFields(methodIndex) == useFieldResolvers /\ methodIndex = -1

\* the head of makeObjectExec's loop body, for the method index found
ResolveMethod(resolverType, typeName, name, methodIndex) ==
  ResolveMember(resolverType, unwrapPtr(resolverType), typeName, name, methodIndex,
                SearchesFields(methodIndex) /\ Ambiguous(fieldCount(unwrapPtr(resolverType), EmptyMap), name))

\* makeObjectExec's choice of the member that resolves field name: the method
\* index, else (with field resolvers) the path of a data member, else an error
ResolveField(resolverType, typeName, name) ==
  ResolveMethod(resolverType, typeName, name, findMethod(resolverType, name))

\* makeFieldExec's loop over the directives attached to field f, at directive n, the d-th
RECURSIVE DirectivesPackersFrom(_, _, _)
DirectivePacker(f, packers, d, n) ==
  IF n = dDeprecated THEN DirectivesPackersFrom(f, packers, d + 1)
  ELSE IF n \notin DOMAIN directives
  THEN [err |-> Errorf("directive %q on field %q does not have a visitor registered with the schema", NoRT, n, f.name),
        packers |-> EmptyMap]
  ELSE IF ~Visitors[directives[n]].interceptor THEN DirectivesPackersFrom(f, packers, d + 1)
  ELSE IF n \notin DOMAIN s.directives
  THEN [err |-> Errorf("directive definition %q is not defined in the schema", NoRT, n, f.name),
        packers |-> EmptyMap]
  ELSE IF ~MakeStructPacker(s.directives[n].arguments, Visitors[directives[n]].rtype).ok
  THEN [err |-> Errorf("packer", Visitors[directives[n]].rtype, n, f.name), packers |-> EmptyMap]
  ELSE DirectivesPackersFrom(f, Put(packers, n, MakeStructPacker(s.directives[n].arguments, Visitors[directives[n]].rtype).packer),
                             d + 1)

\* makeFieldExec's loop over the directives attached to field f, from the d-th on
DirectivesPackersFrom(f, packers, d) ==
  IF d > Len(f.directives) THEN [err |-> NoErr, packers |-> packers]
  ELSE DirectivePacker(f, packers, d, f.directives[d])

\* the parameters makeFieldExec inspects: all of the method's, less the receiver
FieldMethodIn(resolverType, methodIndex, methodHasReceiver) ==
  IF methodHasReceiver THEN Tail(MethodIn(resolverType, methodIndex)) ELSE MethodIn(resolverType, methodIndex)

\* hasContext = len(in) > 0 && in[0] == contextType
HasContextParam(in) == Len(in) > 0 /\ in[1] = CTX

\* a faulty check, which never takes the second result for an error: with it
\* property C9 fails
NoErrorResult(out) == FALSE

\* hasError = m.Type.NumOut() == maxNumOfReturns
HasErrorResult(out) == Len(out) = maxNumOfReturns

\* makeFieldExec's checks once the context parameter is dropped: in are the
\* parameters left, pk the packer made when the field declares arguments,
\* rest the parameters left after that one
ShapeError(f, in, pk, rest, out) ==
  CASE Len(f.args) > 0 /\ Len(in) = 0 -> "must have args struct argument for field arguments"
    [] ~pk.ok -> "packer"
    [] Len(rest) > 0 -> "too many arguments"
    [] Len(out) < maxNumOfReturns - 1 -> "too few return values"
    [] Len(out) > maxNumOfReturns -> "too many return values"
    [] HasErrorResult(out) /\ out[maxNumOfReturns] # ERR -> "must have error as its last return value"
    [] OTHER -> ""

\* makeFieldExec's validation for the parameters in left after the context
ShapeAfterContext(f, hasContext, in, out) ==
  IF Len(f.args) > 0 /\ Len(in) > 0
  THEN [msg |-> ShapeError(f, in, MakeStructPacker(f.args, in[1]), Tail(in), out),
        hasContext |-> hasContext, hasError |-> HasErrorResult(out),
        argsPacker |-> MakeStructPacker(f.args, in[1]).packer]
  ELSE [msg |-> ShapeError(f, in, [ok |-> TRUE, packer |-> NoPacker], in, out),
        hasContext |-> hasContext, hasError |-> HasErrorResult(out), argsPacker |-> NoPacker]

\* makeFieldExec's validation for the parameters in left after the receiver
ShapeAfterReceiver(f, in, out) ==
  ShapeAfterContext(f, HasContextParam(in), IF HasContextParam(in) THEN Tail(in) ELSE in, out)

\* makeFieldExec's validation of the method's signature: the error ("" for
\* none) and what the Field records
MethodShape(f, resolverType, methodIndex, methodHasReceiver) ==
  ShapeAfterReceiver(f, FieldMethodIn(resolverType, methodIndex, methodHasReceiver),
                     MethodOut(resolverType, methodIndex))

\* what makeFieldExec records for a data member
FieldShape == [msg |-> "", hasContext |-> FALSE, hasError |-> FALSE, argsPacker |-> NoPacker]

\* a subscription root's method returning a channel resolves to the channel's element
SubscriptionOut(typeName, out) ==
  IF s.subscription # NoType /\ typeName = ST[s.subscription].name /\ Kind(out) = "Chan" THEN Elem(out) ELSE out

\* the resolver type the field's value is bound against
FieldOut(typeName, resolverType, methodIndex, fieldIndex) ==
  IF methodIndex # -1
  THEN SubscriptionOut(typeName, MethodOut(resolverType, methodIndex)[1])
  ELSE FieldByIndex(unwrapPtr(resolverType), fieldIndex).type

\* makeFieldExec's result for the signature found (shape) and the packers made (dp)
FieldExec(typeName, f, resolverType, methodIndex, fieldIndex, shape, dp) ==
  IF shape.msg # "" THEN [err |-> Errorf(shape.msg, NoRT, typeName, f.name), fe |-> <<>>, out |-> NoRT]
  ELSE IF dp.err # NoErr THEN [err |-> dp.err, fe |-> <<>>, out |-> NoRT]
  ELSE [err |-> NoErr,
        fe |-> [kind |-> "Field", FieldDefinition |-> f, TypeName |-> typeName, MethodIndex |-> methodIndex,
                FieldIndex |-> fieldIndex, HasContext |-> shape.hasContext, ArgsPacker |-> shape.argsPacker,
                DirectivesPackers |-> dp.packers, HasError |-> shape.hasError,
                TraceLabel |-> <<typeName, f.name>>, ValueExec |-> Nil],
        out |-> FieldOut(typeName, resolverType, methodIndex, fieldIndex)]

\* makeFieldExec up to its assignExec call: an error, or the Field and the
\* resolver type its value is bound against
makeFieldExec(typeName, f, resolverType, methodIndex, fieldIndex, methodHasReceiver) ==
  FieldExec(typeName, f, resolverType, methodIndex, fieldIndex,
            IF methodIndex # -1 THEN MethodShape(f, resolverType, methodIndex, methodHasReceiver) ELSE FieldShape,
            DirectivesPackersFrom(f, EmptyMap, 1))

\* ------------------------------------------------------------------------
\* ApplyResolver
\* ------------------------------------------------------------------------

NoSchema == [Query |-> Nil, Mutation |-> Nil, Subscription |-> Nil,
             QueryResolver |-> NoRT, MutationResolver |-> NoRT, SubscriptionResolver |-> NoRT]
Running      == [status |-> "running", schema |-> NoSchema, err |-> NoErr]
\* a faulty return, which hands the error back as a success: with it property C3 fails
FailedSilently(err) == [status |-> "ok", schema |-> NoSchema, err |-> err]
Failed(err)  == [status |-> "error", schema |-> NoSchema, err |-> err]
Panicked     == [status |-> "panic", schema |-> NoSchema, err |-> NoErr]
Returned(sc) == [status |-> "ok", schema |-> sc, err |-> NoErr]

\* the builder's state after a call on it, and ApplyResolver's return when the
\* call failed: every error is handed up unchanged to ApplyResolver's caller
Commit(b) ==
  /\ resMap' = b.resMap
  /\ heap' = b.heap
  /\ calls' = b.calls
  /\ stack' = b.stack
  /\ pc' = IF b.out \in {"error", "panic"} THEN "done" ELSE pc
  /\ result' = CASE b.out = "error" -> Failed(Unwind(b.err, b.stack))
                 [] b.out = "panic" -> Panicked
                 [] OTHER -> result

RootType(o) == CASE o = 1 -> s.query [] o = 2 -> s.mutation [] OTHER -> s.subscription

\* applyDirectives: an error, or the visitors by name
applyDirectives(reg, missing) ==
  IF reg.err # NoErr THEN {[err |-> reg.err, byName |-> EmptyMap]}
  ELSE IF missing # {}
  THEN {[err |-> Errorf("no visitors have been registered for directive %q", NoRT, NoName, name), byName |-> EmptyMap] :
          name \in missing}
  ELSE {[err |-> NoErr, byName |-> reg.byName]}

\* ApplyResolver up to the loop over the roles: the nil resolver, applyDirectives, newBuilder
Start ==
  /\ pc = "start"
  /\ UNCHANGED <<s, resolver, dirVisitors, useFieldResolvers, resolvers, resMap, heap, stack, roots, calls, op>>
  /\ IF resolver = "nil"
     THEN /\ pc' = "done"
          /\ result' = Returned(NoSchema)
          /\ directives' = directives
     ELSE \E reg \in {RegisterVisitors(dirVisitors, EmptyMap, 1)} :
          \E ds \in applyDirectives(reg, UnvisitedDirectives(s.directives, reg.byName)) :
            IF ds.err # NoErr
            THEN pc' = "done" /\ result' = Failed(ds.err) /\ directives' = directives
            ELSE pc' = "roles" /\ result' = result /\ directives' = ds.byName

\* the validation of the role method m and its call: the error message ("" for none)
RoleMethodError(m) ==
  CASE Len(m.in) # 0 -> "method %q of %v must not accept any arguments, got %d"
    [] Len(m.out) # 1 -> "method %q of %v must have 1 return value, got %d"
    [] Kind(m.out[1]) # "Ptr" /\ Kind(m.out[1]) # "Interface" ->
         "method %q of %v must return an interface or a pointer, got %+v"
    [] m.result = "nil" -> "method %q of %v must return a non-nil result, got %v"
    [] OTHER -> ""

\* a faulty choice, which ignores the role method's result: with it property C6 fails
BaseResolver(mi) == resolver

\* the resolver of a role: the role method's result, else the resolver passed in
RoleResolver(mi) == IF mi # -1 THEN Method(resolver, mi).result ELSE resolver

\* one round of the loop over Query, Mutation, Subscription
ResolveRole ==
  /\ pc = "roles"
  /\ UNCHANGED <<s, resolver, dirVisitors, useFieldResolvers, directives, resMap, heap, stack, roots, calls>>
  /\ \E mi \in {MethodByName(resolver, Roles[op])} :
     \E msg \in {IF mi # -1 THEN RoleMethodError(Method(resolver, mi)) ELSE ""} :
       IF msg # ""
       THEN /\ pc' = "done" /\ op' = op /\ resolvers' = resolvers
            /\ result' = Failed(Errorf(msg, resolver, NoName, Roles[op]))
       ELSE /\ resolvers' = [resolvers EXCEPT ![op] = RoleResolver(mi)]
            /\ result' = result
            /\ IF op < 3 THEN op' = op + 1 /\ pc' = pc ELSE op' = 1 /\ pc' = "bind"

\* the binding of one root operation, skipped when the schema declares none
BindRoot ==
  /\ pc = "bind" /\ stack = <<>> /\ op <= 3
  /\ UNCHANGED <<s, resolver, dirVisitors, useFieldResolvers, directives, resolvers, roots>>
  /\ op' = op + 1
  /\ IF RootType(op) = NoType
     THEN UNCHANGED <<resMap, heap, stack, calls, pc, result>>
     ELSE Commit(AssignExec(Builder, RootTarget(op), RootType(op), resolvers[op]))

\* the builder after a nested assignExec: when it is over, the caller goes on
AfterAssign(b) == IF b.out = "done" THEN ContinueTop(b) ELSE b

\* the activation while it is in the nested call
Waiting(f, kind, name, obj, member) ==
  [f EXCEPT !.wait = [kind |-> kind, name |-> name, obj |-> obj, member |-> member]]

\* the name of the method or data member found, for the error's "used by"
ResolverName(resolverType, r) ==
  IF r.methodIndex # -1 THEN Method(resolverType, r.methodIndex).name
  ELSE FieldByIndex(unwrapPtr(resolverType), r.fieldIndex).name

\* the call of makeFieldExec for field fd and the member r of activation f
BindMember(f, fd, r, mk, n) ==
  IF mk.err # NoErr
  THEN [SetTop(Builder, Waiting(f, "field", fd.name, n, ResolverName(f.rtype, r))) EXCEPT !.err = mk.err, !.out = "error"]
  ELSE AfterAssign(AssignExec([SetTop(Builder, Waiting(f, "field", fd.name, n, ResolverName(f.rtype, r)))
                                 EXCEPT !.heap = Append(@, mk.fe)],
                              HeapTarget(n), fd.type, mk.out))

\* one round of makeObjectExec's loop over the fields, with makeFieldExec
BindField ==
  /\ pc = "bind" /\ stack # <<>>
  /\ UNCHANGED <<s, resolver, dirVisitors, useFieldResolvers, directives, resolvers, roots, op>>
  /\ \E f \in {stack[Len(stack)]} :
       /\ f.kind = "obj" /\ f.wait.kind = "none" /\ f.i < Len(ST[f.tdef].fields)
       /\ \E fd \in {ST[f.tdef].fields[f.i + 1]} :
          \E r \in {ResolveField(f.rtype, ST[f.tdef].name, fd.name)} :
            CASE r.tag = "err"   -> Commit([Builder EXCEPT !.err = r.err, !.out = "error"])
              [] r.tag = "panic" -> Commit([Builder EXCEPT !.out = "panic"])
              [] OTHER ->
                   Commit(BindMember(f, fd, r,
                                     makeFieldExec(ST[f.tdef].name, fd, f.rtype, r.methodIndex, r.fieldIndex,
                                                   Kind(f.rtype) # "Interface"),
                                     Len(heap) + 1))

\* whether makeObjectExec checks the type assertions
ChecksTypeAssertions(resolverType) == ~useFieldResolvers \/ Kind(resolverType) # "Interface"

\* the conversion method must return the value and the success flag
WrongResultCount(out) == Len(out) # 2

\* the validation of the conversion method: the error message ("" for none)
TypeAssertionError(resolverType, methodIndex, methodHasReceiver) ==
  CASE methodIndex = -1 -> "%s does not resolve %q: missing method %q to convert to %q"
    [] Len(MethodIn(resolverType, methodIndex)) # (IF methodHasReceiver THEN 1 ELSE 0) ->
         "%s does not resolve %q: method %q should't have any arguments"
    [] WrongResultCount(MethodOut(resolverType, methodIndex)) ->
         "%s does not resolve %q: method %q should return a value and a bool indicating success"
    [] OTHER -> ""

\* the method name "To" + impl.Name
ToName(impl) == <<"T", "o">> \o ST[impl].name

\* the TypeAssertion for possible type impl and its assignExec
BindAssertion(f, impl, methodIndex, msg, n) ==
  IF msg # ""
  THEN [Builder EXCEPT !.err = Errorf(msg, f.rtype, ST[f.tdef].name, ToName(impl)), !.out = "error"]
  ELSE AfterAssign(AssignExec([SetTop(Builder, Waiting(f, "assert", ST[impl].name, n, ToName(impl)))
                                 EXCEPT !.heap = Append(@, [kind |-> "TypeAssertion", MethodIndex |-> methodIndex,
                                                            TypeExec |-> Nil])],
                              HeapTarget(n), impl, MethodOut(f.rtype, methodIndex)[1]))

\* one round of makeObjectExec's loop over the possible types
BindTypeAssertion ==
  /\ pc = "bind" /\ stack # <<>>
  /\ UNCHANGED <<s, resolver, dirVisitors, useFieldResolvers, directives, resolvers, roots, op>>
  /\ \E f \in {stack[Len(stack)]} :
       /\ f.kind = "obj" /\ f.wait.kind = "none" /\ f.i = Len(ST[f.tdef].fields)
       /\ ChecksTypeAssertions(f.rtype) /\ f.j < Len(ST[f.tdef].possible)
       /\ \E impl \in {ST[f.tdef].possible[f.j + 1]} :
          \E methodIndex \in {findMethod(f.rtype, ToName(impl))} :
            Commit(BindAssertion(f, impl, methodIndex,
                                 TypeAssertionError(f.rtype, methodIndex, Kind(f.rtype) # "Interface"),
                                 Len(heap) + 1))

\* makeObjectExec's return of the Object, and the end of the assignExec that called it
ReturnObject ==
  /\ pc = "bind" /\ stack # <<>>
  /\ UNCHANGED <<s, resolver, dirVisitors, useFieldResolvers, directives, resolvers, roots, op>>
  /\ \E f \in {stack[Len(stack)]} :
       /\ f.kind = "obj" /\ f.wait.kind = "none" /\ f.i = Len(ST[f.tdef].fields)
       /\ (ChecksTypeAssertions(f.rtype) => f.j = Len(ST[f.tdef].possible))
       /\ Commit(Return([Builder EXCEPT !.heap = Append(@, [kind |-> "Object", Name |-> ST[f.tdef].name,
                                                            Fields |-> f.Fields,
                                                            TypeAssertions |-> f.TypeAssertions])],
                        Len(heap) + 1))

\* makeExec's list case: the assignExec of the element
BindListElem ==
  /\ pc = "bind" /\ stack # <<>>
  /\ UNCHANGED <<s, resolver, dirVisitors, useFieldResolvers, directives, resolvers, roots, op>>
  /\ \E f \in {stack[Len(stack)]} :
       /\ f.kind = "list" /\ f.wait.kind = "none" /\ f.i = 0
       /\ Commit(AfterAssign(AssignExec(SetTop(Builder, Waiting(f, "elem", NoName, f.node, NoName)),
                                        HeapTarget(f.node), f.tdef, f.rtype)))

\* makeExec's return of the List, and the end of the assignExec that called it
ReturnList ==
  /\ pc = "bind" /\ stack # <<>>
  /\ UNCHANGED <<s, resolver, dirVisitors, useFieldResolvers, directives, resolvers, roots, op>>
  /\ \E f \in {stack[Len(stack)]} :
       /\ f.kind = "list" /\ f.wait.kind = "none" /\ f.i = 1
       /\ Commit(Return(Builder, f.node))

\* a faulty finish(), which leaves the targets as they are: with it property C2 fails
Unpatched(node, exec) == node

\* *target = entry.exec
Patch(node, exec) ==
  CASE node.kind = "Field"         -> [node EXCEPT !.ValueExec = exec]
    [] node.kind = "List"          -> [node EXCEPT !.Elem = exec]
    [] node.kind = "TypeAssertion" -> [node EXCEPT !.TypeExec = exec]
    [] OTHER                       -> node

\* the entries that hold target among their targets
EntriesOf(rm, target) == {k \in DOMAIN rm : \E i \in 1..Len(rm[k].targets) : rm[k].targets[i] = target}

\* what finish() leaves in target
Patched(rm, target, old) ==
  IF EntriesOf(rm, target) = {} THEN old ELSE rm[CHOOSE k \in EntriesOf(rm, target) : TRUE].exec

\* finish(): every target of every entry gets the entry's node
finish(rm, h) == [n \in DOMAIN h |-> Patch(h[n], Patched(rm, HeapTarget(n), Nil))]

\* the packers the builder's fields hold
PackersOf(node) ==
  IF node.kind = "Field"
  THEN {node.ArgsPacker} \cup {node.DirectivesPackers[d] : d \in DOMAIN node.DirectivesPackers}
  ELSE {}

\* packer.Builder.Finish: fails when a default value of a struct packer does not pack
PackerFinishFails(h) == \E n \in DOMAIN h : \E p \in PackersOf(h[n]) : p # NoPacker /\ ~p[1].defaultsPack

\* finish() and packerBuilder.Finish(), then ApplyResolver's return
Finish ==
  /\ pc = "bind" /\ stack = <<>> /\ op = 4
  /\ UNCHANGED <<s, resolver, dirVisitors, useFieldResolvers, directives, resolvers, resMap, stack, calls, op>>
  /\ heap' = finish(resMap, heap)
  /\ roots' = [o \in 1..3 |-> Patched(resMap, RootTarget(o), roots[o])]
  /\ pc' = "done"
  /\ result' = IF PackerFinishFails(heap) THEN Failed(Errorf("packer finish", NoRT, NoName, NoName))
               ELSE Returned([Query |-> roots'[1], Mutation |-> roots'[2], Subscription |-> roots'[3],
                              QueryResolver |-> resolvers[1], MutationResolver |-> resolvers[2],
                              SubscriptionResolver |-> resolvers[3]])

\* ------------------------------------------------------------------------
\* The bindings checked
\* ------------------------------------------------------------------------

QueryTypes == {"QInt", "QFloat", "QString", "QBoolean", "QID", "QNull", "QColor", "QColorN", "QList", "QListN",
               "QArgs", "QArgsDef", "QInput", "QNest", "QNestN", "QPet", "QUnion", "QField", "QFold", "Node"}

CoreResolvers ==
  {"*rv:" \o x : x \in XTypes}
  \cup {"*m_ctx", "*m_ctx_args_err", "*m_args", "*m_args_bad", "*m_extra", "*m_args_ctx", "*m_err", "*m_second",
        "*m_none", "*m_three"}
  \cup {"*f_direct", "*f_emb1", "*f_emb2", "*f_deep", "*f_meth", "*f_embptr", "*f_diremb", "*f_embname", "*f_str",
        "*f_kelvin", "*f_kelvin2", "*f_longs", "*f_longs2", "*m_longs"}
  \cup {"*node", "*pet"}

DirectiveQueryTypes == {"QInt", "QDirAuth", "QDirInclude", "QDirSkip", "QDirSpecifiedBy", "QDirDeprecated",
                        "QDirGhost", "QDirTwo"}

RootResolvers ==
  {"nil", "*rv:int32", "*rv:chan int32", "*r_mutOK", "*r_mutNil", "*r_mutArg", "*r_mutTwo", "*r_mutVal",
   "*r_mutIface", "*r_mutIfaceNil", "*r_mutBad", "*r_mutCase", "*r_qry", "*r_qryNil", "*r_sub", "*r_subNil", "*r_all"}

SeqsUpTo(S, n) == UNION {[1..k -> S] : k \in 0..n}

Schema(q, m, sub, decl) == [query |-> q, mutation |-> m, subscription |-> sub, directives |-> decl]

Init ==
  /\ pc = "start" /\ op = 1
  /\ directives = EmptyMap
  /\ resolvers = [o \in 1..3 |-> NoRT]
  /\ resMap = EmptyMap /\ heap = <<>> /\ stack = <<>> /\ calls = <<>>
  /\ roots = [o \in 1..3 |-> Nil]
  /\ result = Running
  /\ \/ \* every query type against every resolver
        /\ s \in {Schema(q, NoType, NoType, DeclStd) : q \in QueryTypes}
        /\ resolver \in CoreResolvers
        /\ dirVisitors = <<>>
        /\ useFieldResolvers \in BOOLEAN
     \/ \* directive declarations, attached directives and visitors
        /\ s \in {Schema(q, NoType, NoType, decl) : q \in DirectiveQueryTypes, decl \in DeclSets}
        /\ resolver \in {"*rv2", "nil"}
        /\ dirVisitors \in SeqsUpTo(DOMAIN Visitors, MaxVisitors)
        /\ useFieldResolvers = FALSE
     \/ \* root operations and role methods
        /\ s \in {Schema(q, m, sub, DeclStd) : q \in {NoType, "QInt", "Node"}, m \in {NoType, "Mut"}, sub \in {NoType, "Sub", "QInt"}}
        /\ resolver \in RootResolvers
        /\ dirVisitors = <<>>
        /\ useFieldResolvers = FALSE

Next ==
  \/ Start
  \/ ResolveRole
  \/ BindRoot
  \/ BindField
  \/ BindTypeAssertion
  \/ ReturnObject
  \/ BindListElem
  \/ ReturnList
  \/ Finish

Spec == Init /\ [][Next]_vars
\* ------------------------------------------------------------------------
\* Properties
\* ------------------------------------------------------------------------

Done == pc = "done"
Ok == pc = "done" /\ result.status = "ok"
\* finish() has run: ApplyResolver returned a Schema, or packerBuilder.Finish failed
FinishRan == pc = "done" /\ resolver # "nil" /\ (result.status = "ok" \/ result.err.msg = "packer finish")

Min(S) == CHOOSE x \in S : \A y \in S : x <= y
IsPrefix(a, b) == Len(a) <= Len(b) /\ SubSeq(b, 1, Len(a)) = a
Range(f) == {f[x] : x \in DOMAIN f}

\* what a *Resolvable holds
Slot(target) ==
  IF target[1] = "root" THEN roots[target[2]]
  ELSE CASE heap[target[2]].kind = "Field"         -> heap[target[2]].ValueExec
         [] heap[target[2]].kind = "List"          -> heap[target[2]].Elem
         [] heap[target[2]].kind = "TypeAssertion" -> heap[target[2]].TypeExec
         [] OTHER                                  -> Nil

Targets(k) == {resMap[k].targets[i] : i \in 1..Len(resMap[k].targets)}
\* the schema type of a pair without its non-null wrapper, and its kind
TypeOf(k) == unwrapNonNull(k[1]).type
KindOf(k) == ST[TypeOf(k)].kind
NonNullOf(k) == unwrapNonNull(k[1]).nonNull
Bound(k) == resMap[k].exec # Nil
\* binding the pair failed at once, with this message naming the resolver type rt
FailsWith(k, msg, rt) ==
  /\ ~Bound(k) /\ pc = "done" /\ result.status = "error"
  /\ result.err.msg = msg /\ result.err.rtype = rt /\ result.schema = NoSchema
  /\ calls[Len(calls)] = k

\* the fields an activation of makeObjectExec has made so far
BoundFields(f) ==
  {n \in Range(f.Fields) \cup (IF f.wait.kind = "field" THEN {f.wait.obj} ELSE {}) : n \in DOMAIN heap}
ObjectFrames == {stack[i] : i \in {j \in 1..Len(stack) : stack[j].kind = "obj"}}
\* ApplyResolver returned while makeObjectExec was choosing the member for a field
StuckAtField ==
  /\ pc = "done" /\ stack # <<>>
  /\ stack[Len(stack)].kind = "obj" /\ stack[Len(stack)].wait.kind = "none"
  /\ stack[Len(stack)].i < Len(ST[stack[Len(stack)].tdef].fields)
StuckField == ST[stack[Len(stack)].tdef].fields[stack[Len(stack)].i + 1]

\* ApplyResolver returned because makeFieldExec refused the member of a field
RefusedMember ==
  /\ pc = "done" /\ stack # <<>> /\ stack[Len(stack)].kind = "obj"
  /\ stack[Len(stack)].wait.kind = "field" /\ stack[Len(stack)].wait.obj \notin DOMAIN heap
RefusedField == ST[stack[Len(stack)].tdef].fields[stack[Len(stack)].i + 1]
\* the errors of makeFieldExec's validation of the method's signature
ShapeMsgs == {"must have args struct argument for field arguments", "too many arguments",
              "too few return values", "too many return values", "must have error as its last return value"}

\* ---- C1 ----

OncePerPair == \A i, j \in 1..Len(calls) : calls[i] = calls[j] => i = j

TargetsHoldNode ==
  FinishRan => \A k \in DOMAIN resMap : Bound(k) /\ \A t \in Targets(k) : Slot(t) = resMap[k].exec

HitOnlyAppends ==
  /\ \A k \in DOMAIN resMap :
       /\ k \in DOMAIN resMap'
       /\ IsPrefix(resMap[k].targets, resMap'[k].targets)
       /\ (Bound(k) => resMap'[k].exec = resMap[k].exec)
  /\ IsPrefix(calls, calls')
  /\ \A i \in (Len(calls) + 1)..Len(calls') : calls'[i] \notin DOMAIN resMap
  /\ DOMAIN resMap' = DOMAIN resMap \cup {calls'[i] : i \in (Len(calls) + 1)..Len(calls')}

\* the work done so far: a number that every step of the binder raises
PcRank == CASE pc = "start" -> 0 [] pc = "roles" -> 10 [] pc = "bind" -> 20 [] OTHER -> 30
TargetCount == Cardinality(UNION {{<<k, i>> : i \in 1..Len(resMap[k].targets)} : k \in DOMAIN resMap})
Rank == PcRank + op + Len(heap) + Len(calls) + TargetCount

\* the binder has a next step to take: ApplyResolver is before its binding
\* loop, or between two root operations, or the innermost makeExec is not
\* waiting for a call that never returned
Runnable ==
  \/ pc \in {"start", "roles"}
  \/ pc = "bind" /\ stack = <<>> /\ op <= 4
  \/ /\ pc = "bind" /\ stack # <<>> /\ stack[Len(stack)].wait.kind = "none"
     /\ IF stack[Len(stack)].kind = "obj"
        THEN /\ stack[Len(stack)].i <= Len(ST[stack[Len(stack)].tdef].fields)
             /\ stack[Len(stack)].j <= Len(ST[stack[Len(stack)].tdef].possible)
        ELSE stack[Len(stack)].i \in {0, 1}

\* C1: binding terminates, also for a cyclic schema type bound to a cyclic
\* resolver type (every step raises Rank, which the finitely many pairs bound,
\* and the binder never stops short of its return); makeExec runs at most once
\* per (schema type, resolver type) pair; an assignExec for a pair already in
\* resMap, finished or not, only appends its target; and once finish() has run
\* every target of a pair holds the pair's one node, so that a self-referencing
\* field's child is its ancestor.
C1_OncePerPairAndShared ==
  /\ [](OncePerPair /\ TargetsHoldNode /\ (Done \/ Runnable))
  /\ [][HitOnlyAppends /\ Rank' > Rank]_vars

\* a successful binding in which a field's child is the object that holds the
\* field, the pair having been hit while its node was under construction
C1_Witness ==
  /\ Ok
  /\ \E n \in DOMAIN heap :
       /\ heap[n].kind = "Field" /\ heap[n].ValueExec # Nil
       /\ heap[heap[n].ValueExec].kind = "Object"
       /\ n \in Range(heap[heap[n].ValueExec].Fields)
  /\ \E k \in DOMAIN resMap : Len(resMap[k].targets) > 1

\* ---- C2 ----

Children(n) ==
  CASE heap[n].kind = "Object"        -> Range(heap[n].Fields) \cup Range(heap[n].TypeAssertions)
    [] heap[n].kind = "Field"         -> {heap[n].ValueExec} \ {Nil}
    [] heap[n].kind = "List"          -> {heap[n].Elem} \ {Nil}
    [] heap[n].kind = "TypeAssertion" -> {heap[n].TypeExec} \ {Nil}
    [] OTHER                          -> {}

RECURSIVE ReachFrom(_)
ReachFrom(S) ==
  IF UNION {Children(n) : n \in S} \subseteq S THEN S ELSE ReachFrom(S \cup UNION {Children(n) : n \in S})

\* the nodes of the trees ApplyResolver returned
Reachable == ReachFrom({result.schema.Query, result.schema.Mutation, result.schema.Subscription} \ {Nil})

\* the slot of node n holds the finished node of the pair it was registered for
HoldsEntryNode(n) ==
  /\ Slot(HeapTarget(n)) # Nil
  /\ \E k \in DOMAIN resMap : HeapTarget(n) \in Targets(k) /\ Bound(k) /\ Slot(HeapTarget(n)) = resMap[k].exec

\* an Object has one Field per declared field of the schema type it was made for
ObjectComplete(n) ==
  \E k \in DOMAIN resMap :
    /\ resMap[k].exec = n
    /\ Cardinality(DOMAIN heap[n].Fields) = Len(ST[TypeOf(k)].fields)
    /\ \A i \in 1..Len(ST[TypeOf(k)].fields) : ST[TypeOf(k)].fields[i].name \in DOMAIN heap[n].Fields
    /\ \A c \in Range(heap[n].Fields) : heap[c].kind = "Field"
    /\ \A c \in Range(heap[n].TypeAssertions) : heap[c].kind = "TypeAssertion"

Built(n) ==
  /\ n \in DOMAIN heap
  /\ CASE heap[n].kind = "Object" -> ObjectComplete(n)
       [] heap[n].kind \in {"Field", "List", "TypeAssertion"} -> HoldsEntryNode(n)
       [] OTHER -> heap[n].kind = "Scalar"

RootOf(sc, o) == CASE o = 1 -> sc.Query [] o = 2 -> sc.Mutation [] OTHER -> sc.Subscription

\* C2: after a successful return every node reachable from the returned Query,
\* Mutation and Subscription trees is fully built: an Object has exactly one
\* Field per declared field, and every ValueExec, Elem and TypeExec is non-nil
\* and is the finished node of the memo entry it was registered with.
C2_ReachableNodesBuilt ==
  Ok /\ resolver # "nil" =>
    /\ \A n \in Reachable : Built(n)
    /\ \A o \in 1..3 : RootType(o) # NoType =>
         /\ RootOf(result.schema, o) # Nil
         /\ <<RootType(o), resolvers[o]>> \in DOMAIN resMap
         /\ RootOf(result.schema, o) = resMap[<<RootType(o), resolvers[o]>>].exec

\* a returned tree with an Object of three fields and a List whose element is bound
C2_Witness ==
  /\ Ok
  /\ \E n \in Reachable : heap[n].kind = "Object" /\ Cardinality(DOMAIN heap[n].Fields) = 3
  /\ \E n \in Reachable : heap[n].kind = "List" /\ heap[n].Elem # Nil

\* ---- C3 ----

\* the binding stopped before every declared root operation was bound and patched
Aborted ==
  \/ stack # <<>>
  \/ \E k \in DOMAIN resMap : ~Bound(k)
  \/ \E o \in 1..3 : RootType(o) # NoType /\ roots[o] = Nil

\* C3: binding is all-or-nothing: when the directive validation, a role
\* method's validation, an assignExec of a root operation or finish() fails,
\* ApplyResolver returns the nil Schema and the error; a Schema is returned only
\* with every declared root operation bound and patched.
C3_AllOrNothing ==
  pc = "done" /\ resolver # "nil" =>
    IF result.status = "ok"
    THEN /\ ~Aborted /\ ~PackerFinishFails(heap) /\ result.err = NoErr
         /\ \A o \in 1..3 : RootOf(result.schema, o) = roots[o] /\ (RootType(o) = NoType <=> roots[o] = Nil)
    ELSE /\ result.schema = NoSchema
         /\ result.status = "error" => result.err # NoErr

\* the query root was bound, then the assignExec of the mutation root failed:
\* the nil Schema is returned with the error
C3_Witness ==
  /\ pc = "done" /\ result.status = "error" /\ result.schema = NoSchema /\ result.err # NoErr
  /\ RootType(1) # NoType /\ RootType(2) # NoType
  /\ \E k \in DOMAIN resMap : k[1] = RootType(1) /\ Bound(k)
  /\ \E k \in DOMAIN resMap : k[1] = RootType(2) /\ ~Bound(k)

\* ---- C4 ----

BuiltinScalars == {nInt, nFloat, nString, nBoolean}
Primitive(name) ==
  CASE name = nInt -> "int32" [] name = nFloat -> "float64" [] name = nString -> "string"
    [] name = nBoolean -> "bool" [] OTHER -> NoRT

ScalarPairs == {k \in DOMAIN resMap : KindOf(k) = "Scalar" /\ (NonNullOf(k) \/ Kind(k[2]) = "Ptr")}
\* the resolver type the scalar is checked against
Against(k) == IF NonNullOf(k) THEN k[2] ELSE Elem(k[2])
\* the resolver type has the custom-scalar capability and answers true for name
CustomFor(name, rt) == RT[rt].unm /\ name \in RT[rt].impl

ScalarError(k) == FailsWith(k, "can not use %s as %s", Against(k)) /\ result.err.tname = ST[TypeOf(k)].name

\* C4 as claimed: a built-in scalar binds to its one primitive and to nothing
\* else, types with the custom-scalar capability included; a custom scalar
\* binds only to a type that answers true for its name; a failure names the
\* resolver type and the scalar.
C4_OnlyPrimitivesForBuiltins ==
  \A k \in ScalarPairs :
    /\ ST[TypeOf(k)].name \in BuiltinScalars => (Bound(k) <=> Against(k) = Primitive(ST[TypeOf(k)].name))
    /\ ST[TypeOf(k)].name \notin BuiltinScalars /\ Bound(k) => CustomFor(ST[TypeOf(k)].name, Against(k))
    /\ ~Bound(k) => ScalarError(k)

Accepts(name, rt) ==
  \/ name \in BuiltinScalars /\ rt = Primitive(name)
  \/ rt \notin {Primitive(n) : n \in BuiltinScalars} /\ CustomFor(name, rt)

\* C4: a scalar binds exactly when the resolver type is the primitive of a
\* built-in name (int32, float64, string, bool), or is no such primitive, has
\* the custom-scalar capability and answers true for the scalar's name, be it
\* built-in or custom; every other type fails with an error naming the
\* resolver type and the scalar.
C4_ScalarBinding ==
  \A k \in ScalarPairs :
    /\ Bound(k) <=> Accepts(ST[TypeOf(k)].name, Against(k))
    /\ ~Bound(k) => ScalarError(k)

\* the built-in Int bound to a type of the custom-scalar capability, and not to
\* a named type over int32
C4_Witness ==
  /\ \E k \in ScalarPairs : ST[TypeOf(k)].name = nInt /\ Against(k) = "MyInt" /\ Bound(k)
  /\ pc = "done"

\* ---- C5 ----

NoVisitorMsg == "no visitors have been registered for directive %q"
FieldNoVisitorMsg == "directive %q on field %q does not have a visitor registered with the schema"

\* the directive names of the visitors passed in
VisitorNames == {Visitors[dirVisitors[i]].name : i \in 1..Len(dirVisitors)}
\* the first loop of applyDirectives accepts the visitors: no name twice, each an interceptor
VisitorsAccepted ==
  /\ \A i, j \in 1..Len(dirVisitors) : Visitors[dirVisitors[i]].name = Visitors[dirVisitors[j]].name => i = j
  /\ \A i \in 1..Len(dirVisitors) : Visitors[dirVisitors[i]].interceptor
\* the declared directives that may stand on a field definition
OnFieldDefinitions ==
  {d \in DOMAIN s.directives :
     \E l \in 1..Len(s.directives[d].locations) : s.directives[d].locations[l] = "FIELD_DEFINITION"}
PermittedBare == {dInclude, dSkip, dDeprecated, dSpecifiedBy}
\* the directives attached to the field of a Field node
Attached(n) == Range(heap[n].FieldDefinition.directives)
FieldNodes == {n \in DOMAIN heap : heap[n].kind = "Field"}

\* the schema-wide check fails for the declared directives without a visitor
\* that are not among the four built-ins, and for no other
SchemaWideCheck ==
  /\ pc = "done" /\ result.err.msg = NoVisitorMsg =>
       result.err.fname \in (OnFieldDefinitions \ VisitorNames) \ PermittedBare
  /\ pc = "done" /\ resolver # "nil" /\ VisitorsAccepted /\ (OnFieldDefinitions \ VisitorNames) \ PermittedBare # {} =>
       result.status = "error" /\ result.err.msg = NoVisitorMsg /\ result.schema = NoSchema

NotDefinedMsg == "directive definition %q is not defined in the schema"

\* the places, among the directives ds attached to a field, of those that
\* makeFieldExec cannot make a packer for: any but deprecated that has no
\* visitor or no definition in the schema
Unpackable(ds) ==
  {j \in 1..Len(ds) : ds[j] # dDeprecated /\ (ds[j] \notin VisitorNames \/ ds[j] \notin DOMAIN s.directives)}

\* the error makeFieldExec gave names the field refused and the first of its
\* directives without a packer: the no-visitor error when it has no visitor
DirectiveErrorNames(f) ==
  /\ Unpackable(f.directives) # {}
  /\ result.status = "error" /\ result.schema = NoSchema
  /\ result.err.fname = f.name
  /\ result.err.tname = f.directives[Min(Unpackable(f.directives))]
  /\ result.err.msg = IF result.err.tname \in VisitorNames THEN NotDefinedMsg ELSE FieldNoVisitorMsg

RoleMethodsOf(o) == {m \in Range(RT[resolver].methods) : m.name = Roles[o]}
RoleMethodOf(o) == CHOOSE m \in RoleMethodsOf(o) : TRUE
WellFormedRole(m) ==
  /\ m.in = <<>> /\ Len(m.out) = 1
  /\ Kind(m.out[1]) \in {"Ptr", "Interface"}
  /\ m.result # "nil"
BadRoles == {o \in 1..3 : RoleMethodsOf(o) # {} /\ ~WellFormedRole(RoleMethodOf(o))}
\* applyDirectives let the binding pass
DirectivesPassed ==
  resolver # "nil" /\ VisitorsAccepted /\ (OnFieldDefinitions \ VisitorNames) \ PermittedBare = {}

\* a resolver type that has, for every field of the root type, a method without
\* parameters returning int32 (or, for the subscription type, a channel of int32)
\* for a field of type Int! without arguments and directives
Satisfies(t, rt) ==
  /\ Kind(rt) = "Ptr"
  /\ \A i \in 1..Len(ST[t].fields) :
       /\ ST[t].fields[i].args = <<>> /\ ST[t].fields[i].directives = <<>>
       /\ ST[ST[t].fields[i].type] = NonNullT("Int")
       /\ \E m \in Range(RT[rt].methods) :
            /\ NameMatches(ST[t].fields[i].name, m.name)
            /\ \A m2 \in Range(RT[rt].methods) : NameMatches(ST[t].fields[i].name, m2.name) => m2 = m
            /\ m.in = <<>>
            /\ m.out = <<"int32">> \/ (s.subscription # NoType /\ ST[t].name = ST[s.subscription].name /\ m.out = <<"chan int32">>)

\* C6: a method of the resolver named exactly as a role must take no argument,
\* return one pointer or interface, and return it non-nil, else the binding
\* fails naming the role (a nil result with the non-nil-result error); its
\* result is the role's resolver.  Without the method the resolver passed in is
\* the role's resolver, and the binding succeeds when the role resolvers
\* satisfy the declared root types.  No tree is bound for an undeclared role.
C6_RoleResolvers ==
  pc = "done" /\ DirectivesPassed =>
    IF BadRoles # {}
    THEN /\ result.status = "error" /\ result.schema = NoSchema
         /\ result.err.fname = Roles[Min(BadRoles)] /\ result.err.rtype = resolver
         /\ (RoleMethodOf(Min(BadRoles)).in = <<>> /\ Len(RoleMethodOf(Min(BadRoles)).out) = 1
               /\ Kind(RoleMethodOf(Min(BadRoles)).out[1]) \in {"Ptr", "Interface"}
             => result.err.msg = "method %q of %v must return a non-nil result, got %v")
    ELSE /\ \A o \in 1..3 :
              /\ resolvers[o] = IF RoleMethodsOf(o) # {} THEN RoleMethodOf(o).result ELSE resolver
              /\ RootType(o) = NoType => roots[o] = Nil /\ \A k \in DOMAIN resMap : RootTarget(o) \notin Targets(k)
         /\ (\A o \in 1..3 : RootType(o) # NoType => Satisfies(RootType(o), resolvers[o]))
              => result.status = "ok" /\ \A o \in 1..3 : RootType(o) # NoType => RootOf(result.schema, o) # Nil

\* a Mutation method's result bound as the mutation root, the resolver passed
\* in bound as the query root, and no subscription declared or bound
C6_Witness ==
  /\ Ok /\ resolver = "*r_mutOK"
  /\ s.query = "QInt" /\ s.mutation = "Mut" /\ s.subscription = NoType
  /\ resolvers = <<"*r_mutOK", "*rv:int32", "*r_mutOK">>
  /\ roots[1] # Nil /\ roots[2] # Nil /\ roots[3] = Nil

\* ---- C7 ----

\* the methods of rt that match the field name, by their place in the method set
MatchingMethods(rt, name) == {i \in 1..Len(RT[rt].methods) : NameMatches(name, RT[rt].methods[i].name)}

\* the paths, as FieldByIndex takes them, to the data members of struct t that
\* match the field name: its own members and those of its embedded structs
RECURSIVE Exposures(_, _)
Exposures(t, name) ==
  IF Kind(t) # "Struct" THEN {}
  ELSE UNION {
         (IF NameMatches(name, RT[t].fields[i].name) THEN {<<i - 1>>} ELSE {})
         \cup (IF RT[t].fields[i].anon /\ Kind(RT[t].fields[i].type) = "Struct"
               THEN {<<i - 1>> \o p : p \in Exposures(RT[t].fields[i].type, name)}
               ELSE {})
         : i \in 1..Len(RT[t].fields)}

\* the name is exposed by data members of two distinct embedded structs
TwoEmbedded(t, name) ==
  \E p, q \in Exposures(t, name) :
    /\ Len(p) > 1 /\ Len(q) > 1 /\ p[1] # q[1]
    /\ ~(FieldByIndex(t, p).anon /\ Kind(FieldByIndex(t, p).type) = "Struct")
    /\ ~(FieldByIndex(t, q).anon /\ Kind(FieldByIndex(t, q).type) = "Struct")

AmbiguousMsg == "%s does not resolve %q: ambiguous field %q"

\* the member chosen for the Field node n made for resolver type rt
MemberChosen(rt, n) ==
  IF MatchingMethods(rt, heap[n].FieldDefinition.name) # {}
  THEN /\ heap[n].MethodIndex = Min(MatchingMethods(rt, heap[n].FieldDefinition.name)) - 1
       /\ heap[n].FieldIndex = <<>>
  ELSE /\ useFieldResolvers /\ heap[n].MethodIndex = -1
       /\ heap[n].FieldIndex # <<>>
       /\ heap[n].FieldIndex \in Exposures(unwrapPtr(rt), heap[n].FieldDefinition.name)
       /\ ~TwoEmbedded(unwrapPtr(rt), heap[n].FieldDefinition.name)

\* C7 as claimed, a member exposing a field when its name matches the field's
\* as findMethod and findField match: with field resolvers in use and no method matching the field, a name
\* exposed by data members of two distinct embedded structs fails the binding
\* with the ambiguity error naming the field; a name exposed by exactly one
\* data member, its own or an embedded struct's at any depth, is resolved with
\* MethodIndex -1 and the FieldIndex path of that member.  A matching method is
\* always chosen, without any ambiguity error.
C7_FieldResolverFallback ==
  /\ \A f \in ObjectFrames : \A n \in BoundFields(f) : MemberChosen(f.rtype, n)
  /\ StuckAtField =>
       /\ MatchingMethods(stack[Len(stack)].rtype, StuckField.name) = {}
       /\ result.err.msg = AmbiguousMsg =>
            /\ useFieldResolvers /\ result.err.fname = StuckField.name
            /\ Cardinality(Exposures(unwrapPtr(stack[Len(stack)].rtype), StuckField.name)) > 1
       /\ useFieldResolvers /\ TwoEmbedded(unwrapPtr(stack[Len(stack)].rtype), StuckField.name) =>
            /\ result.status = "error" /\ result.err.msg = AmbiguousMsg
            /\ result.err.fname = StuckField.name /\ result.schema = NoSchema
       /\ ~(useFieldResolvers /\ Cardinality(Exposures(unwrapPtr(stack[Len(stack)].rtype), StuckField.name)) = 1)

\* ---- C8 ----

\* makeObjectExec looks for the conversion methods of resolver type rt
ConversionsChecked(rt) == ~useFieldResolvers \/ Kind(rt) # "Interface"

\* the conversion method of rt to the possible type impl: the first method
\* whose name matches "To" and the type's name
ConversionsTo(rt, impl) == MatchingMethods(rt, <<"T", "o">> \o ST[impl].name)

PolymorphicPairs == {k \in DOMAIN resMap : KindOf(k) \in {"Interface", "Union"} /\ Bound(k)}
ObjectPairs == {k \in DOMAIN resMap : KindOf(k) = "Object" /\ Bound(k)}

\* the TypeAssertions of a bound pair: one per possible type, by the type's
\* name, each with the method's index
AssertionsMade(k) ==
  /\ DOMAIN heap[resMap[k].exec].TypeAssertions = {ST[impl].name : impl \in Range(ST[TypeOf(k)].possible)}
  /\ \A impl \in Range(ST[TypeOf(k)].possible) :
       /\ ConversionsTo(k[2], impl) # {}
       /\ heap[heap[resMap[k].exec].TypeAssertions[ST[impl].name]].MethodIndex = Min(ConversionsTo(k[2], impl)) - 1
       /\ <<impl, RT[k[2]].methods[Min(ConversionsTo(k[2], impl))].out[1]>> \in DOMAIN resMap
       /\ FinishRan =>
            heap[heap[resMap[k].exec].TypeAssertions[ST[impl].name]].TypeExec
              = resMap[<<impl, RT[k[2]].methods[Min(ConversionsTo(k[2], impl))].out[1]>>].exec

\* C8 as claimed: an interface or union binds, when the conversions are
\* checked, only if the resolver type has for every possible type T a method
\* To<T> without arguments that returns exactly two values, the concrete value
\* and a boolean success flag; TypeAssertions then has one entry per possible
\* type, bound against the method's first result, and is empty for an object.
C8_ConversionReturnsValueAndBool ==
  /\ \A k \in PolymorphicPairs :
       IF ConversionsChecked(k[2])
       THEN /\ \A impl \in Range(ST[TypeOf(k)].possible) :
                 /\ ConversionsTo(k[2], impl) # {}
                 /\ RT[k[2]].methods[Min(ConversionsTo(k[2], impl))].in = <<>>
                 /\ Len(RT[k[2]].methods[Min(ConversionsTo(k[2], impl))].out) = 2
                 /\ RT[k[2]].methods[Min(ConversionsTo(k[2], impl))].out[2] = "bool"
            /\ AssertionsMade(k)
       ELSE heap[resMap[k].exec].TypeAssertions = EmptyMap
  /\ \A k \in ObjectPairs : heap[resMap[k].exec].TypeAssertions = EmptyMap

\* ---- C9 ----

\* the parameters of method m after the context
AfterContext(m) == IF Len(m.in) > 0 /\ m.in[1] = CTX THEN Tail(m.in) ELSE m.in

\* the signature of method m fits the field fd
SignatureFits(m, fd) ==
  /\ Len(AfterContext(m)) = (IF fd.args # <<>> THEN 1 ELSE 0)
  /\ Len(m.out) \in {1, 2}
  /\ Len(m.out) = 2 => m.out[2] = ERR

\* what the Field node n, made for resolver type rt, records of its member
SignatureRecorded(rt, n) ==
  IF heap[n].MethodIndex # -1
  THEN /\ SignatureFits(RT[rt].methods[heap[n].MethodIndex + 1], heap[n].FieldDefinition)
       /\ heap[n].HasContext = (AfterContext(RT[rt].methods[heap[n].MethodIndex + 1])
                                  # RT[rt].methods[heap[n].MethodIndex + 1].in)
       /\ heap[n].HasError = (Len(RT[rt].methods[heap[n].MethodIndex + 1].out) = 2)
       /\ (heap[n].ArgsPacker # NoPacker) = (heap[n].FieldDefinition.args # <<>>)
       /\ heap[n].ArgsPacker # NoPacker =>
            heap[n].ArgsPacker[1].target = AfterContext(RT[rt].methods[heap[n].MethodIndex + 1])[1]
  ELSE ~heap[n].HasContext /\ ~heap[n].HasError /\ heap[n].ArgsPacker = NoPacker

RefusedMethods == MatchingMethods(stack[Len(stack)].rtype, RefusedField.name)

\* C9: a field binds to a method only if the method's parameters after the
\* receiver are an optional leading context and then the argument struct
\* exactly when the field declares arguments, and it returns one value, or two
\* with the error type second; HasContext, ArgsPacker and HasError record what
\* is there.  A field bound to a data member has none of the three.  A method
\* of any other signature is refused with an error.
C9_MethodSignature ==
  /\ \A f \in ObjectFrames : \A n \in BoundFields(f) : SignatureRecorded(f.rtype, n)
  /\ RefusedMember =>
       /\ result.status = "error" /\ result.schema = NoSchema
       /\ result.err.msg \in ShapeMsgs =>
            /\ RefusedMethods # {}
            /\ ~SignatureFits(RT[stack[Len(stack)].rtype].methods[Min(RefusedMethods)], RefusedField)
       /\ RefusedMethods # {} /\ ~SignatureFits(RT[stack[Len(stack)].rtype].methods[Min(RefusedMethods)], RefusedField) =>
            result.err.msg \in ShapeMsgs

\* a field with arguments bound to a method with context, argument struct and error
C9_Witness ==
  /\ Ok
  /\ \E n \in FieldNodes :
       /\ heap[n].MethodIndex = 0 /\ heap[n].HasContext /\ heap[n].HasError
       /\ heap[n].ArgsPacker # NoPacker /\ heap[n].FieldDefinition.args # <<>>

\* ---- C10 ----

\* the resolver type of pair k after makeExec's pointer check
Unwrapped(k) == IF NonNullOf(k) THEN k[2] ELSE Elem(k[2])
ElemPair(k) == <<ST[TypeOf(k)].ofType, Elem(Unwrapped(k))>>

\* C10: a scalar, enum or list without the non-null wrapper needs a pointer
\* for its resolver type, and is bound against the pointee, else the binding
\* fails with the not-a-pointer error; with the wrapper the resolver type is
\* taken as it is.  A list needs, after that, a slice, and binds its element
\* type against the slice's element type.  An object, interface or union
\* without the wrapper needs a pointer or an interface; with it nothing is asked.
C10_Nullability ==
  \A k \in DOMAIN resMap :
    IF KindOf(k) \in {"Scalar", "Enum", "List"}
    THEN IF ~NonNullOf(k) /\ Kind(k[2]) # "Ptr"
         THEN FailsWith(k, "%s is not a pointer", k[2])
         ELSE CASE KindOf(k) = "List" ->
                     IF Kind(Unwrapped(k)) # "Slice"
                     THEN FailsWith(k, "%s is not a slice", Unwrapped(k))
                     ELSE /\ result.err.msg \in {"%s is not a slice", "%s is not a pointer"} => calls[Len(calls)] # k
                          /\ Bound(k) =>
                               /\ heap[resMap[k].exec].kind = "List" /\ ElemPair(k) \in DOMAIN resMap
                               /\ FinishRan => heap[resMap[k].exec].Elem = resMap[ElemPair(k)].exec
                [] KindOf(k) = "Enum" -> Bound(k)
                [] OTHER -> Bound(k) <=> Accepts(ST[TypeOf(k)].name, Unwrapped(k))
    ELSE IF KindOf(k) \in {"Object", "Interface", "Union"}
    THEN IF ~NonNullOf(k) /\ Kind(k[2]) \notin {"Ptr", "Interface"}
         THEN FailsWith(k, "%s is not a pointer or interface", k[2])
         ELSE result.err.msg = "%s is not a pointer or interface" => calls[Len(calls)] # k
    ELSE ~Bound(k) /\ pc = "done" /\ result.status = "panic"

\* a nullable list of nullable Int bound to a pointer to a slice of pointers
C10_Witness ==
  /\ pc = "done" /\ result.status = "ok"
  /\ <<"QListN.v", "*[]*int32">> \in DOMAIN resMap /\ <<"Int", "*int32">> \in DOMAIN resMap
  /\ resMap[<<"QListN.v", "*[]*int32">>].exec # Nil /\ resMap[<<"Int", "*int32">>].exec # Nil

====
